---- MODULE Spec2Model ----
(***************************************************************************)
(* Roxonn platform: repository registration, installation resolution and   *)
(* re-linking, visibility of registered repositories, the public           *)
(* repository endpoints, the reward ledger, the funding flow, the token     *)
(* cache and the chain gateway; the activation switch of a registration,   *)
(* the VSCode onboarding hand-over, AI credits and the /admin/* endpoints. *)
(*                                                                         *)
(* server/routes/repositoryRoutes.ts, server/routes/authRoutes.ts and the  *)
(* admin routes are modelled from their code.  Each                        *)
(* request is a process; every await of a handler is a suspension point    *)
(* and therefore the end of one step.  GitHub, the persistent store and    *)
(* the chain are the environment: a call to them yields one of the results *)
(* the handler distinguishes (a value, a null, a thrown error).            *)
(***************************************************************************)
EXTENDS Integers, Sequences, FiniteSets, TLC

VARIABLES
    rows,          \* storage: registered_repositories, keyed by githubRepoId
    reg,           \* POST /repositories/register requests
    acc,           \* the GET /repositories/accessible request being served
    collaborators, \* GitHub: the <<user, repoId>> collaborator pairs
    denied,        \* history: the <<user, repoId>> a served listing left out on a 404
    pub,           \* the last response of a public (unauthenticated) endpoint
    counters,      \* RewardLedger: FundingWindowCounter rows
    now,           \* RewardLedger: the clock, in hours
    decision,      \* RewardLedger: the last admission decision
    allocations,   \* ChainGateway: RewardAllocation per idempotency key
    chainTxs,      \* ChainGateway: the on-chain allocation transactions
    lastTx,        \* ChainGateway: the last result returned by allocate
    fund,          \* fundRepository / transfer requests
    cache,         \* TokenCache: the entry of each installation id
    callers,       \* TokenCache: the getToken calls
    fin,           \* the POST /github/app/finalize-installation request being served
    patch,         \* the PATCH /repositories/:repoId/active request being served
    sessionStore,  \* the stored session: whether isVscodeOnboarding is set
    onb,           \* the GET /auth/vscode/finalize-onboarding request being served
    issued,        \* history: the tokens issued since the flag was last set
    credits,       \* storage: aiCredits of each user
    charged,       \* history: the amounts of the deductions that succeeded, per user
    deduct,        \* the deductAICredits calls
    ai,            \* the POST /api/vscode/ai/completions request being served
    admin,         \* the /admin/* request being served
    serviceCalls   \* history: the service calls the /admin/* handlers made, and for whom

vars == <<rows, reg, acc, collaborators, denied, pub, counters, now, decision,
          allocations, chainTxs, lastTx, fund, cache, callers, fin, patch,
          sessionStore,
          onb,
          issued,
          credits,
          charged,
          deduct,
          ai,
          admin,
          serviceCalls>>

\* The variables of the handlers outside the repository registry's core.
lateVars == <<patch, sessionStore, onb, issued, credits, charged, deduct, ai, admin, serviceCalls>>

\* The variables of the subsystems added to the five below.
moreVars == <<fund, cache, callers, fin, lateVars>>

regVars    == <<rows, reg>>
notRegVars == <<acc, collaborators, denied, pub, counters, now, decision,
                allocations, chainTxs, lastTx, moreVars>>
accVars    == <<acc, collaborators, denied>>
notAccVars == <<rows, reg, pub, counters, now, decision, allocations, chainTxs, lastTx,
                moreVars>>
pubVars    == <<pub>>
notPubVars == <<rows, reg, acc, collaborators, denied, counters, now, decision,
                allocations, chainTxs, lastTx, moreVars>>
ledgerVars == <<counters, now, decision>>
notLedgerVars == <<rows, reg, acc, collaborators, denied, pub, allocations, chainTxs, lastTx,
                   moreVars>>
chainVars  == <<allocations, chainTxs, lastTx>>
notChainVars == <<rows, reg, acc, collaborators, denied, pub, counters, now, decision,
                  moreVars>>
fundVars   == <<fund, counters, now>>
notFundVars == <<rows, reg, acc, collaborators, denied, pub, decision,
                 allocations, chainTxs, lastTx, cache, callers, fin, lateVars>>
tokenVars  == <<cache, callers>>
notTokenVars == <<rows, reg, acc, collaborators, denied, pub, counters, now, decision,
                  allocations, chainTxs, lastTx, fund, fin, lateVars>>
finVars    == <<rows, fin>>
notFinVars == <<reg, acc, collaborators, denied, pub, counters, now, decision,
                allocations, chainTxs, lastTx, fund, cache, callers, lateVars>>
earlyVars  == <<reg, acc, collaborators, denied, pub, counters, now, decision,
                allocations, chainTxs, lastTx, fund, cache, callers, fin>>
onboardVars == <<sessionStore, onb, issued>>
creditVars == <<credits, charged, deduct, ai>>
adminVars  == <<admin, serviceCalls>>
notOnboardVars == <<rows, earlyVars, patch, creditVars, adminVars>>
notCreditVars == <<rows, earlyVars, patch, onboardVars, adminVars>>
notAdminVars == <<rows, earlyVars, patch, onboardVars, creditVars>>
activeVars == <<rows, patch>>
notActiveVars == <<earlyVars, onboardVars, creditVars, adminVars>>

(***************************************************************************)
(* Bounds of the model.                                                    *)
(***************************************************************************)
MaxRegister == 2      \* register requests in one behaviour
MaxTicks == 3         \* steps of the ledger's clock in one behaviour
MaxFund == 2          \* fundRepository / transfer requests in one behaviour
MaxCallers == 3       \* getToken calls in one behaviour

RegIds == 1..MaxRegister

(***************************************************************************)
(* Principals.  req.user is undefined for an unauthenticated request.      *)
(***************************************************************************)
Anon == "anon"
Users == {"alice", "bob"}
Principals == Users \cup {Anon}

\* A signed-in user whose session holds no GitHub access token.
NoTokenUser == "carol"

\* req.user.username: GitHub logins keep their case.
Username(u) == IF u = "alice" THEN "Alice" ELSE u

\* req.user.githubAccessToken
GithubAccessToken(u) == IF u \in Users THEN <<"ghu", u>> ELSE <<>>

\* String.prototype.toLowerCase over the logins of the model.
ToLowerCase(s) == IF s = "Alice" THEN "alice" ELSE s

(***************************************************************************)
(* GitHub, as the handlers see it.                                         *)
(***************************************************************************)
GithubAppName == "roxonn"

\* The repositories that exist on GitHub: id, owner, name, private flag.
GhRepos == { [id |-> "42", owner |-> "alice", name |-> "widgets", private |-> TRUE],
             [id |-> "43", owner |-> "acme",  name |-> "widgets", private |-> FALSE] }

RepoIds == { r.id : r \in GhRepos }

GhRepo(owner, name) == { r \in GhRepos : r.owner = owner /\ r.name = name }

\* GET /repos/{owner}/{repo}/installation: the repo-specific installation.
GhRepoInstallation(owner, name) ==
    IF owner = "alice" /\ name = "widgets" THEN "i1" ELSE ""

\* GET /user/installations: the installations the caller's token can see.
GhUserInstallations(u) ==
    IF u = "alice"
    THEN << [id |-> "i7", app_slug |-> "other-app"],
            [id |-> "i2", app_slug |-> GithubAppName] >>
    ELSE << [id |-> "i7", app_slug |-> "other-app"] >>

\* The organisations a user administers.
GhOrgAdmins == { <<"alice", "acme">>, <<"bob", "acme">> }


\* findAppInstallationByName: the first installation of the platform's app.
RECURSIVE FindAppInstallationByName(_)
FindAppInstallationByName(installations) ==
    IF installations = <<>> THEN <<>>
    ELSE IF Head(installations).app_slug = GithubAppName
         THEN <<Head(installations)>>
         ELSE FindAppInstallationByName(Tail(installations))

\* verifyUserIsOrgAdmin(token, org)
VerifyUserIsOrgAdmin(u, org) == <<u, org>> \in GhOrgAdmins

\* isValidGitHubOwner / isValidGitHubRepo: the names GitHub accepts.
IsValidGitHubOwner(s) == s \in {"alice", "acme"}
IsValidGitHubRepo(s) == s \in {"widgets"}

(***************************************************************************)
(* The persistent store (registered_repositories).                         *)
(***************************************************************************)
Registered == DOMAIN rows

\* storage.findRegisteredRepository(userId, githubRepoId): a set of 0 or 1 rows
FindRegisteredRepository(userId, repoId) ==
    IF repoId \in Registered /\ rows[repoId].userId = userId
    THEN {rows[repoId]} ELSE {}

\* storage.registerRepositoryDirectly: the store after the call
RegisterRepositoryDirectly(userId, repoId, fullName, installationId, isPrivate) ==
    [r \in Registered \cup {repoId} |->
        IF r = repoId
        THEN [githubRepoId |-> repoId, userId |-> userId,
              githubRepoFullName |-> fullName,
              installationId |-> installationId,
              isPrivate |-> isPrivate, isActive |-> TRUE]
        ELSE rows[r]]

(***************************************************************************)
(* POST /repositories/register                                             *)
(***************************************************************************)
IdleRegister ==
    [pc |-> "idle", user |-> Anon, repoId |-> "", owner |-> "", name |-> "",
     hint |-> "", inst |-> "", isPrivate |-> FALSE, lookup |-> "none",
     listing |-> "none", status |-> 0, error |-> "", installUrl |-> <<>>,
     calls |-> <<>>, details |-> "none"]

\* req.body of the requests the model sends
RegisterBodies ==
    { [githubRepoId |-> r.id, owner |-> r.owner, name |-> r.name, installationId |-> ""] :
        r \in GhRepos }
    \cup { [githubRepoId |-> "42", owner |-> "alice", name |-> "widgets", installationId |-> "i9"],
           [githubRepoId |-> "", owner |-> "alice", name |-> "widgets", installationId |-> ""],
           [githubRepoId |-> "42", owner |-> "..", name |-> "widgets", installationId |-> ""] }

\* req.body of the requests of the user without a GitHub access token
NoTokenBodies == { b \in RegisterBodies : b.installationId # "" }

\* What a call to GitHub or to the store can do besides answering.
CallOutcomes == {"ok", "throws"}

\* `installUrl` of the not-installed response
InstallUrl(repoId) ==
    <<"https://github.com/apps/", GithubAppName, "/installations/new?state=", repoId>>

\* Lines 545-554: the catch of the lookup chain.
NotInstalledResponse(r) ==
    [r EXCEPT !.pc = "done", !.status = 400, !.error = "GitHub App not installed",
              !.installUrl = InstallUrl(r.repoId)]

\* requireAuth, then lines 309-323.
RegisterStart(q, u, body) ==
    /\ reg[q].pc = "idle"
    /\ \A p \in RegIds : p < q => reg[p].pc # "idle"
    /\ LET r == [reg[q] EXCEPT !.user = u, !.repoId = body.githubRepoId,
                               !.owner = body.owner, !.name = body.name,
                               !.hint = body.installationId]
       IN  reg' = [reg EXCEPT ![q] =
                IF u = Anon
                THEN [reg[q] EXCEPT !.pc = "done", !.status = 401,
                                    !.error = "Unauthorized"]
                ELSE IF body.githubRepoId = ""
                THEN [r EXCEPT !.pc = "done", !.status = 400,
                               !.error = "Missing repository ID or name"]
                ELSE IF ~IsValidGitHubOwner(body.owner) \/ ~IsValidGitHubRepo(body.name)
                THEN [r EXCEPT !.pc = "done", !.status = 400,
                               !.error = "Invalid repository name format"]
                ELSE [r EXCEPT !.pc = "find"]]
    /\ UNCHANGED <<rows, notRegVars>>

\* RegisterFind without the short cut of line 328: an existing registration
\* does not end the request.
RegisterFindAgain(q, outcome) ==
    /\ reg[q].pc = "find"
    /\ LET r == [reg[q] EXCEPT !.calls = Append(@, "findRegisteredRepository")]
       IN  reg' = [reg EXCEPT ![q] =
                IF outcome = "throws"
                THEN [r EXCEPT !.pc = "done", !.status = 500,
                               !.error = "Failed to register repository"]
                ELSE [r EXCEPT !.pc = "org"]]
    /\ UNCHANGED <<rows, notRegVars>>

\* Lines 326-330: await storage.findRegisteredRepository.
RegisterFind(q, outcome) ==
    /\ reg[q].pc = "find"
    /\ LET r == [reg[q] EXCEPT !.calls = Append(@, "findRegisteredRepository")]
       IN  reg' = [reg EXCEPT ![q] =
                IF outcome = "throws"
                THEN [r EXCEPT !.pc = "done", !.status = 500,
                               !.error = "Failed to register repository"]
                ELSE IF FindRegisteredRepository(r.user, r.repoId) # {}
                THEN [r EXCEPT !.pc = "done", !.status = 200]
                ELSE [r EXCEPT !.pc = "org"]]
    /\ UNCHANGED <<rows, notRegVars>>

\* Line 334 with the comparison dropped: no repository is taken for an
\* organisation's.
IsOrgRepoNever(repoOwner, username) == FALSE

\* Line 334: the owner is not the caller, compared without case.
IsOrgRepo(repoOwner, username) ==
    repoOwner # "" /\ ToLowerCase(repoOwner) # ToLowerCase(username)

\* Lines 332-351, and the branch of line 354.  outcome: whether the await of
\* verifyUserIsOrgAdmin answers or throws (outer catch, 556).
RegisterOrgCheck(q, outcome) ==
    /\ reg[q].pc = "org"
    /\ LET r == reg[q]
           isOrg == IsOrgRepo(r.owner, Username(r.user))
           next == IF r.hint # "" THEN "hintDetails" ELSE "lookup"
       IN  reg' = [reg EXCEPT ![q] =
                IF ~isOrg THEN [r EXCEPT !.pc = next]
                ELSE IF GithubAccessToken(r.user) = <<>>
                THEN [r EXCEPT !.pc = "done", !.status = 401,
                               !.error = "GitHub authentication required for org repository registration"]
                ELSE IF outcome = "throws"
                THEN [r EXCEPT !.pc = "done", !.status = 500,
                               !.error = "Failed to register repository",
                               !.calls = Append(@, "verifyUserIsOrgAdmin")]
                ELSE IF ~VerifyUserIsOrgAdmin(r.user, r.owner)
                THEN [r EXCEPT !.pc = "done", !.status = 403,
                               !.error = "You must be an admin of this organization to register its repositories",
                               !.calls = Append(@, "verifyUserIsOrgAdmin")]
                ELSE [r EXCEPT !.pc = next,
                               !.calls = Append(@, "verifyUserIsOrgAdmin")]]
    /\ UNCHANGED <<rows, notRegVars>>

\* DetailsIsPrivate defaulting to private when the request fails.
DetailsIsPrivateFailClosed(owner, name, outcome) ==
    IF outcome = "throws" THEN TRUE
    ELSE \E g \in GhRepo(owner, name) : g.private

\* `isPrivate` after the repository-details request (lines 359-378, 421-439, 501-519)
DetailsIsPrivate(owner, name, outcome) ==
    IF outcome = "throws" THEN FALSE
    ELSE \E g \in GhRepo(owner, name) : g.private

\* The repository-details request of the three paths.
RegisterDetails(q, outcome) ==
    /\ reg[q].pc \in {"hintDetails", "repoDetails", "userDetails"}
    /\ LET r == reg[q]
       IN  reg' = [reg EXCEPT ![q] =
                [r EXCEPT !.pc = CASE r.pc = "hintDetails" -> "hintStore"
                                   [] r.pc = "repoDetails" -> "repoStore"
                                   [] OTHER -> "userStore",
                          !.inst = IF r.pc = "hintDetails" THEN r.hint ELSE r.inst,
                          !.isPrivate = DetailsIsPrivate(r.owner, r.name, outcome),
                          !.details = outcome,
                          !.calls = Append(@, "repoDetails")]]
    /\ UNCHANGED <<rows, notRegVars>>

\* What follows a throw of storage.registerRepositoryDirectly on each path:
\* the outer catch (556), the catch of the repo-specific try (456),
\* the catch of the user-installations try (537) and then the throw of 543.
AfterStoreThrows(r) ==
    CASE r.pc = "hintStore" -> [r EXCEPT !.pc = "done", !.status = 500,
                                         !.error = "Failed to register repository"]
      [] r.pc = "repoStore" -> [r EXCEPT !.pc = "userList"]
      [] OTHER -> NotInstalledResponse(r)

\* Lines 381-393, 442-455, 522-535: await storage.registerRepositoryDirectly.
RegisterStore(q, outcome) ==
    /\ reg[q].pc \in {"hintStore", "repoStore", "userStore"}
    /\ LET r == [reg[q] EXCEPT !.calls = Append(@, "registerRepositoryDirectly")]
       IN  IF outcome = "throws"
           THEN /\ reg' = [reg EXCEPT ![q] = AfterStoreThrows(r)]
                /\ UNCHANGED <<rows, notRegVars>>
           ELSE /\ rows' = RegisterRepositoryDirectly(r.user, r.repoId,
                               <<r.owner, r.name>>, r.inst, r.isPrivate)
                /\ reg' = [reg EXCEPT ![q] = [r EXCEPT !.pc = "done", !.status = 201]]
    /\ UNCHANGED notRegVars

\* Lines 405-418 and 456: GET /repos/{owner}/{repo}/installation.
\* result: "found", "notfound" (404) or "transient" (network, 5xx, rate limit)
RepoLookupResults(owner, name) ==
    (IF GhRepoInstallation(owner, name) # "" THEN {"found"} ELSE {"notfound"})
    \cup {"transient"}

\* The step after the repo-specific lookup: any throw lands in the catch of 456.
AfterRepoLookup(r, result) ==
    IF result = "found"
    THEN [r EXCEPT !.pc = "repoDetails", !.lookup = result,
                   !.inst = GhRepoInstallation(r.owner, r.name)]
    ELSE [r EXCEPT !.pc = "userList", !.lookup = result]

RegisterRepoLookup(q, result) ==
    /\ reg[q].pc = "lookup"
    /\ result \in RepoLookupResults(reg[q].owner, reg[q].name)
    /\ reg' = [reg EXCEPT ![q] =
            AfterRepoLookup([reg[q] EXCEPT !.calls = Append(@, "repoInstallation")], result)]
    /\ UNCHANGED <<rows, notRegVars>>

\* AfterUserList with the app match dropped: any installation of the caller is
\* taken for the platform's.
AfterUserListAnyApp(r, outcome) ==
    LET all == GhUserInstallations(r.user)
    IN  IF outcome = "throws"
        THEN [NotInstalledResponse(r) EXCEPT !.listing = "transient"]
        ELSE [r EXCEPT !.pc = "userDetails",
                       !.listing = IF FindAppInstallationByName(all) # <<>>
                                   THEN "match" ELSE "nomatch",
                       !.inst = all[1].id]

\* The step after GET /user/installations (lines 460-544): a match goes on to
\* register; no match, or a throw (catch of 537), ends in the throw of 543.
AfterUserList(r, outcome) ==
    LET match == FindAppInstallationByName(GhUserInstallations(r.user))
    IN  IF outcome = "throws"
        THEN [NotInstalledResponse(r) EXCEPT !.listing = "transient"]
        ELSE IF match # <<>>
        THEN [r EXCEPT !.pc = "userDetails", !.listing = "match", !.inst = match[1].id]
        ELSE [NotInstalledResponse(r) EXCEPT !.listing = "nomatch"]

RegisterUserList(q, outcome) ==
    /\ reg[q].pc = "userList"
    /\ reg' = [reg EXCEPT ![q] =
            AfterUserList([reg[q] EXCEPT !.calls = Append(@, "userInstallations")], outcome)]
    /\ UNCHANGED <<rows, notRegVars>>

(***************************************************************************)
(* GET /repositories/accessible                                            *)
(***************************************************************************)
IdleListing ==
    [pc |-> "idle", user |-> Anon, snapshot |-> << >>, step |-> << >>,
     reply |-> << >>, token |-> << >>, ghCalls |-> {}, deniedBefore |-> {},
     result |-> {}, chainFailed |-> {}, poolInfo |-> << >>, status |-> 0]

\* blockchain.getRepository(repoId): the pool balance the chain holds.
ChainPoolRewards(repoId) == IF repoId = "42" THEN "5.0" ELSE "7.5"

\* RepositoryWithPoolInfo with the failure swallowed: a read that threw looks
\* like an empty pool.
RepositoryWithPoolInfoSilent(repoId, chainOk) ==
    IF chainOk
    THEN [xdcPoolRewards |-> ChainPoolRewards(repoId), poolInfoError |-> "null"]
    ELSE [xdcPoolRewards |-> "0.0", poolInfoError |-> "null"]

\* Lines 731-749 and 774-791: what is added to a repository of the list after
\* blockchain.getRepository answered (chainOk) or threw.
RepositoryWithPoolInfo(repoId, chainOk) ==
    IF chainOk
    THEN [xdcPoolRewards |-> ChainPoolRewards(repoId), poolInfoError |-> "null"]
    ELSE [xdcPoolRewards |-> "0.0",
          poolInfoError |-> "Unable to fetch pool information. Please try again later."]

\* FilteredRepos with one failed probe emptying the list.
FilteredReposAllOrNothing(a) ==
    IF \/ \E r \in DOMAIN a.token : a.token[r] # "token"
       \/ \E r \in DOMAIN a.reply : a.reply[r] \notin {204, 404}
    THEN {}
    ELSE { r \in DOMAIN a.step : a.step[r] = "visible" }

\* Line 726: the repositories left after the nulls are filtered out.
FilteredRepos(a) == { r \in DOMAIN a.step : a.step[r] = "visible" }

\* storage.getAllRegisteredRepositories()
GetAllRegisteredRepositories == rows

\* FirstStep with the public short cut dropped: every repository is probed.
FirstStepProbeAll(row) == "token"

\* Lines 687-695: the per-repository function up to its first await.
FirstStep(row) == IF ~row.isPrivate THEN "visible" ELSE "token"

\* AfterToken failing open: a repository whose token is missing is shown.
AfterTokenFailOpen(outcome) == IF outcome = "token" THEN "probe" ELSE "visible"

\* Lines 695-699 and 718-721: after await getInstallationAccessToken, which
\* yields a token, yields null, or throws.
AfterToken(outcome) == IF outcome = "token" THEN "probe" ELSE "hidden"

\* GitHub's answer to GET /repos/{full name}/collaborators/{username}
CollaboratorStatus(u, repoId) ==
    IF <<u, repoId>> \in collaborators THEN 204 ELSE 404

\* The statuses the collaborator request can come back with; 0 is a request
\* that got no response.
ProbeStatuses == {204, 404, 403, 0}

\* validateStatus of line 708: any other status makes axios throw.
ValidateStatus(status) == status = 204 \/ status = 404

\* CollaboratorVerdict with a negative result remembered across requests.
CollaboratorVerdictCached(a, repoId, status) ==
    IF ValidateStatus(status) /\ status = 204 /\ repoId \notin a.deniedBefore
    THEN "visible" ELSE "hidden"

\* CollaboratorVerdict with any answered probe taken as access: a 404 shows
\* the repository as well.
CollaboratorVerdictAnyAnswer(a, repoId, status) ==
    IF ValidateStatus(status) THEN "visible" ELSE "hidden"

\* Lines 703-721: the verdict of request a on a repository, from the status.
CollaboratorVerdict(a, repoId, status) ==
    IF ValidateStatus(status) /\ status = 204 THEN "visible" ELSE "hidden"

\* requireAuth and lines 677-679.
ListingStart(u) ==
    /\ acc.pc = "idle"
    /\ acc' = IF u = Anon
              THEN [acc EXCEPT !.pc = "done", !.user = u, !.status = 401]
              ELSE [acc EXCEPT !.pc = "load", !.user = u,
                       !.deniedBefore = { r \in RepoIds : <<u, r>> \in denied }]
    /\ UNCHANGED <<collaborators, denied, notAccVars>>

\* Lines 682-687: await storage.getAllRegisteredRepositories, then the map
\* starts every per-repository function, each running to its first await.
ListingLoad(outcome) ==
    /\ acc.pc = "load"
    /\ acc' = IF outcome = "throws"
              THEN [acc EXCEPT !.pc = "done", !.status = 500]
              ELSE LET all == GetAllRegisteredRepositories
                   IN  [acc EXCEPT !.pc = "probing", !.snapshot = all,
                           !.step = [r \in DOMAIN all |-> FirstStep(all[r])]]
    /\ UNCHANGED <<collaborators, denied, notAccVars>>

\* Line 695: await getInstallationAccessToken(repo.installationId).
ListingToken(r, outcome) ==
    /\ acc.pc = "probing"
    /\ r \in DOMAIN acc.step
    /\ acc.step[r] = "token"
    /\ acc' = [acc EXCEPT !.step[r] = AfterToken(outcome),
                          !.token = [x \in DOMAIN @ \cup {r} |->
                                        IF x = r THEN outcome ELSE @[x]]]
    /\ UNCHANGED <<collaborators, denied, notAccVars>>

\* Lines 702-721: await axios.get(collaboratorCheckUrl).
ListingProbe(r, status) ==
    /\ acc.pc = "probing"
    /\ r \in DOMAIN acc.step
    /\ acc.step[r] = "probe"
    /\ status \in {CollaboratorStatus(acc.user, r), 403, 0}
    /\ acc' = [acc EXCEPT !.step[r] = CollaboratorVerdict(acc, r, status),
                          !.reply = [x \in DOMAIN @ \cup {r} |->
                                        IF x = r THEN status ELSE @[x]],
                          !.ghCalls = @ \cup {r}]
    /\ UNCHANGED <<collaborators, denied, notAccVars>>

\* Lines 723-755: Promise.all resolves, the nulls are filtered out, the pool
\* information of each remaining repository is read from the chain (a read
\* that throws leaves poolInfoError set) and the list is sent.
ListingRespond(failing) ==
    /\ acc.pc = "probing"
    /\ \A r \in DOMAIN acc.step : acc.step[r] \in {"visible", "hidden"}
    /\ LET filtered == FilteredRepos(acc)
       IN  /\ failing \subseteq filtered
           /\ acc' = [acc EXCEPT !.pc = "done", !.status = 200,
                                 !.result = filtered,
                                 !.chainFailed = failing,
                                 !.poolInfo = [r \in filtered |->
                                     RepositoryWithPoolInfo(r, r \notin failing)]]
    /\ denied' = denied \cup
                 { <<acc.user, r>> : r \in { x \in DOMAIN acc.reply : acc.reply[x] = 404 } }
    /\ UNCHANGED <<collaborators, notAccVars>>

\* The response has been sent; the next request is served.
ListingFinish ==
    /\ acc.pc = "done"
    /\ acc' = IdleListing
    /\ UNCHANGED <<collaborators, denied, notAccVars>>

\* GitHub: a repository admin adds or removes a collaborator.
AddCollaborator(u, r) ==
    /\ <<u, r>> \notin collaborators
    /\ collaborators' = collaborators \cup {<<u, r>>}
    /\ UNCHANGED <<acc, denied, notAccVars>>

RemoveCollaborator(u, r) ==
    /\ <<u, r>> \in collaborators
    /\ collaborators' = collaborators \ {<<u, r>>}
    /\ UNCHANGED <<acc, denied, notAccVars>>

(***************************************************************************)
(* The endpoints that need no session: GET /repositories/public,           *)
(* /public/repositories/:repoId, /public/repositories/:repoId/bounties and *)
(* /public/unified-repo/:owner/:repo.  A handler of these reads the store  *)
(* and the chain and writes nothing; it is one step.                       *)
(***************************************************************************)
NoResponse ==
    [endpoint |-> "", principal |-> Anon, target |-> <<>>, status |-> 0,
     blockchain |-> {}, repositories |-> {}, chainFailed |-> {}, poolInfo |-> << >>,
     tokenFor |-> {}, registered |-> FALSE, github |-> "none",
     authorized |-> {}]

\* parseInt(repoId, 10): <<n>>, or <<>> for NaN
ParseInt(str) ==
    CASE str = "42" -> <<42>>
      [] str = "43" -> <<43>>
      [] OTHER -> <<>>

\* storage.getAllPublicRepositories(): the ids of the public registrations
GetAllPublicRepositories == { r \in Registered : ~rows[r].isPrivate }

\* storage.getPublicRepositoryById(numberId): "exists and is public"
GetPublicRepositoryById(numberId) ==
    { r \in Registered : ParseInt(r) = <<numberId>> /\ ~rows[r].isPrivate }

\* storage.findRepositoryByFullName(fullRepoName): "exists in our system"
FindRepositoryByFullName(fullName) ==
    { r \in Registered : rows[r].githubRepoFullName = fullName }

\* Lines 934-939: the owner and repo patterns of the unified endpoint.
UnifiedValidName(owner, repo) ==
    owner \in {"alice", "acme"} /\ repo \in {"widgets", "other"}

\* Lines 764-801: GET /repositories/public.
RepositoriesPublic(p, outcome, failing) ==
    /\ failing \subseteq GetAllPublicRepositories
    /\ outcome = "throws" => failing = {}
    /\ pub' = IF outcome = "throws"
              THEN [NoResponse EXCEPT !.endpoint = "/repositories/public",
                                      !.principal = p, !.status = 500]
              ELSE [NoResponse EXCEPT !.endpoint = "/repositories/public",
                                      !.principal = p, !.status = 200,
                                      !.repositories = GetAllPublicRepositories,
                                      !.blockchain = GetAllPublicRepositories \ failing,
                                      !.chainFailed = failing,
                                      !.poolInfo = [r \in GetAllPublicRepositories |->
                                          RepositoryWithPoolInfo(r, r \notin failing)]]
    /\ UNCHANGED notPubVars

\* Lines 804-877: GET /public/repositories/:repoId and .../bounties.  Both
\* answer with the chain's data of a registration that is public.  outcome:
\* "ok", or which of the two awaits throws.
PublicRepositoryById(p, endpoint, repoId, outcome) ==
    /\ endpoint \in {"/public/repositories/:repoId", "/public/repositories/:repoId/bounties"}
    /\ LET numberId == ParseInt(repoId)
           r == [NoResponse EXCEPT !.endpoint = endpoint, !.principal = p,
                                   !.target = <<repoId>>]
       IN  pub' = IF numberId = <<>>
                  THEN [r EXCEPT !.status = 400]
                  ELSE IF outcome = "storageThrows"
                  THEN [r EXCEPT !.status = 500]
                  ELSE IF GetPublicRepositoryById(numberId[1]) = {}
                  THEN [r EXCEPT !.status = 404]
                  ELSE IF outcome = "chainThrows"
                  THEN [r EXCEPT !.status = 500]
                  ELSE [r EXCEPT !.status = 200, !.registered = TRUE,
                                 !.blockchain = GetPublicRepositoryById(numberId[1])]
    /\ UNCHANGED notPubVars

\* Lines 928-1017: GET /public/unified-repo/:owner/:repo.  tokens: whether
\* getInstallationAccessToken answers; chain: whether blockchain.getRepository
\* answers.
PublicUnifiedRepo(p, owner, repo, tokens, chain) ==
    LET r == [NoResponse EXCEPT !.endpoint = "/public/unified-repo/:owner/:repo",
                                !.principal = p, !.target = <<owner, repo>>]
        registration == FindRepositoryByFullName(<<owner, repo>>)
        withToken == { x \in registration : rows[x].installationId # "" }
    IN  /\ pub' = IF ~UnifiedValidName(owner, repo)
                  THEN [r EXCEPT !.status = 400]
                  ELSE [r EXCEPT !.status = 200,
                          !.tokenFor = withToken,
                          !.authorized = IF tokens = "throws" THEN {} ELSE withToken,
                          !.github = IF withToken # {}
                                     THEN IF tokens = "throws" THEN "failed" ELSE "withToken"
                                     ELSE IF \E g \in GhRepo(owner, repo) : ~g.private
                                          THEN "anonymous" ELSE "failed",
                          !.registered = registration # {},
                          !.blockchain = IF chain = "throws" THEN {} ELSE registration]
        /\ tokens \in CallOutcomes
        /\ UNCHANGED notPubVars

\* Lines 880-925: GET /public/github/issues?owner=&repo=.  An owner or repo
\* of "" stands for a parameter that is missing.  outcome: "ok", or which of
\* the three awaits throws.
PublicGithubIssues(p, owner, repo, outcome) ==
    LET r == [NoResponse EXCEPT !.endpoint = "/public/github/issues",
                                !.principal = p, !.target = <<owner, repo>>]
        repositoryInfo == FindRepositoryByFullName(<<owner, repo>>)
        withToken == { x \in repositoryInfo : rows[x].installationId # "" }
    IN  /\ pub' = IF owner = "" \/ repo = ""
                  THEN [r EXCEPT !.status = 400]
                  ELSE IF ~IsValidGitHubOwner(owner) \/ ~IsValidGitHubRepo(repo)
                  THEN [r EXCEPT !.status = 400]
                  ELSE IF outcome = "storageThrows"
                  THEN [r EXCEPT !.status = 500]
                  ELSE IF outcome = "tokenThrows" /\ withToken # {}
                  THEN [r EXCEPT !.status = 500, !.registered = repositoryInfo # {},
                                 !.tokenFor = withToken, !.github = "failed"]
                  ELSE LET sent == [r EXCEPT !.registered = repositoryInfo # {},
                                             !.tokenFor = withToken,
                                             !.authorized = withToken,
                                             !.github = IF withToken # {} THEN "withToken"
                                                        ELSE "anonymous"]
                       IN  IF \/ outcome = "githubThrows"
                              \/ GhRepo(owner, repo) = {}
                              \/ withToken = {} /\ \E g \in GhRepo(owner, repo) : g.private
                           THEN [sent EXCEPT !.status = 500]
                           ELSE [sent EXCEPT !.status = 200]
        /\ UNCHANGED notPubVars

(***************************************************************************)
(* RewardLedger (server/funding-limits, server/transfer-limits): the       *)
(* admission of an amount against the daily ceiling of a rolling window.   *)
(***************************************************************************)
WindowHours == 24

\* The (subject, currency, window kind) counters of the model.
LedgerKeys == { <<"repo42", "USDC", "funding">>,
                <<"repo42", "XDC", "funding">>,
                <<"user7", "USDC", "transfer">> }

\* The configured ceiling of a currency and window kind.
DailyLimit(key) == IF key[2] = "USDC" /\ key[3] = "funding" THEN 150 ELSE 100

Amounts == {50, 100}

NoDecision == [key |-> <<>>, amount |-> 0, result |-> "none", before |-> 0, after |-> 0]

\* The counter after the lazy reset of an elapsed window.
LazyReset(counter) ==
    IF now - counter.windowStart >= WindowHours
    THEN [windowStart |-> now, amountConsumed |-> 0]
    ELSE counter

\* Admits with the boundary excluded.
AdmitsBelowLimit(consumed, amount, limit) == consumed + amount < limit

\* The comparison of an admission: the ceiling itself may be reached.
Admits(consumed, amount, limit) == consumed + amount <= limit

\* admit(subjectId, currency, amount, windowKind)
Admit(key, amount) ==
    /\ LET counter == LazyReset(counters[key])
           ok == Admits(counter.amountConsumed, amount, DailyLimit(key))
           after == IF ok THEN counter.amountConsumed + amount
                          ELSE counter.amountConsumed
       IN  /\ counters' = [counters EXCEPT ![key] = [counter EXCEPT !.amountConsumed = after]]
           /\ decision' = [key |-> key, amount |-> amount,
                           result |-> IF ok THEN "Accepted" ELSE "LimitExceeded",
                           before |-> counter.amountConsumed, after |-> after]
    /\ UNCHANGED <<now, notLedgerVars>>

\* Time passes, half a window at a time.
Tick ==
    /\ now + WindowHours \div 2 <= MaxTicks * (WindowHours \div 2)
    /\ now' = now + WindowHours \div 2
    /\ UNCHANGED <<counters, decision, notLedgerVars>>

(***************************************************************************)
(* ChainGateway (server/blockchain): allocate under an idempotency key     *)
(* derived from (repoId, issueId, currency).                               *)
(***************************************************************************)
AllocationKeys == { <<"42", "10", "XDC">>, <<"42", "11", "USDC">> }

NoAllocation == [status |-> "none", tx |-> 0]
NoResult == [key |-> <<>>, result |-> "none", tx |-> 0, replay |-> FALSE]

\* The outcomes of submitting an allocation to the chain.
ChainOutcomes == {"Confirmed", "Pending", "Rejected", "Unreachable"}

\* Whether allocate goes to the chain: with the lookup of the key dropped.
ExecutesAlways(allocation) == TRUE

\* Whether allocate goes to the chain: only for a key with no allocation yet.
Executes(allocation) == allocation.status = "none"

\* allocate(repoId, issueId, currency, amount, recipient, idempotencyKey)
Allocate(key, outcome) ==
    LET a == allocations[key]
        tx == Len(chainTxs) + 1
    IN  /\ IF Executes(a)
           THEN CASE outcome = "Confirmed" ->
                       /\ chainTxs' = Append(chainTxs, key)
                       /\ allocations' = [allocations EXCEPT ![key] =
                                              [status |-> "confirmed", tx |-> tx]]
                       /\ lastTx' = [key |-> key, result |-> "TxRef", tx |-> tx,
                                     replay |-> FALSE]
                  [] outcome = "Pending" ->
                       /\ chainTxs' = Append(chainTxs, key)
                       /\ allocations' = [allocations EXCEPT ![key] =
                                              [status |-> "pending", tx |-> tx]]
                       /\ lastTx' = [key |-> key, result |-> "Pending", tx |-> 0,
                                     replay |-> FALSE]
                  [] outcome = "Rejected" ->
                       /\ allocations' = [allocations EXCEPT ![key] =
                                              [status |-> "failed", tx |-> 0]]
                       /\ lastTx' = [key |-> key, result |-> "Rejected", tx |-> 0,
                                     replay |-> FALSE]
                       /\ UNCHANGED chainTxs
                  [] OTHER ->
                       /\ lastTx' = [key |-> key, result |-> "Unreachable", tx |-> 0,
                                     replay |-> FALSE]
                       /\ UNCHANGED <<allocations, chainTxs>>
           ELSE /\ lastTx' = [key |-> key,
                              result |-> CASE a.status = "confirmed" -> "TxRef"
                                           [] a.status = "pending" -> "Pending"
                                           [] OTHER -> "Rejected",
                              tx |-> IF a.status = "confirmed" THEN a.tx ELSE 0,
                              replay |-> TRUE]
                /\ UNCHANGED <<allocations, chainTxs>>
        /\ UNCHANGED notChainVars

\* A pending allocation is polled: its transaction was mined or has failed.
Poll(key, mined) ==
    /\ allocations[key].status = "pending"
    /\ allocations' = [allocations EXCEPT ![key].status =
                           IF mined THEN "confirmed" ELSE "failed"]
    /\ UNCHANGED <<chainTxs, lastTx, notChainVars>>

(***************************************************************************)
(* fundRepository / transfer: a request is authorized, admitted by the     *)
(* RewardLedger and only then handed to the ChainGateway.  The requests    *)
(* run in parallel; the admission and the chain call are their suspension  *)
(* points.                                                                 *)
(***************************************************************************)
FundIds == 1..MaxFund

\* The counters the requests of the model draw on: a funding and a transfer one.
FundKeys == { k \in LedgerKeys : k[2] = "USDC" }

IdleFund ==
    [pc |-> "idle", key |-> <<>>, amount |-> 0, result |-> "none", window |-> 0,
     pending |-> {}, chainCalls |-> 0, reply |-> "none"]

\* The counter after an admission's increment, with the increment dropped:
\* the check alone, the amount recorded nowhere.
CounterUnrecorded(counter, amount) == counter

\* The counter after an accepted admission's increment.
CounterAfter(counter, amount) ==
    [counter EXCEPT !.amountConsumed = @ + amount]

\* Whether a request goes on to the chain, whatever the ledger decided.
ProceedsRegardless(result) == TRUE

\* Whether a request goes on to the chain after the ledger's decision.
ProceedsToChain(result) == result = "Accepted"

\* fundRepository(funderId, repoId, currency, amount) enters.
FundStart(q, key, amount, authorized) ==
    /\ fund[q].pc = "idle"
    /\ \A p \in FundIds : p < q => fund[p].pc # "idle"
    /\ fund' = [fund EXCEPT ![q] =
            IF authorized
            THEN [@ EXCEPT !.pc = "admit", !.key = key, !.amount = amount]
            ELSE [@ EXCEPT !.pc = "done", !.key = key, !.amount = amount,
                           !.reply = "NotAuthorized"]]
    /\ UNCHANGED <<counters, now, notFundVars>>

\* admit(subjectId, currency, amount, windowKind) for request q: the lazy
\* reset, the comparison and the increment are one step.
FundAdmit(q) ==
    /\ fund[q].pc = "admit"
    /\ LET f == fund[q]
           counter == LazyReset(counters[f.key])
           ok == Admits(counter.amountConsumed, f.amount, DailyLimit(f.key))
           result == IF ok THEN "Accepted" ELSE "LimitExceeded"
       IN  /\ counters' = [counters EXCEPT ![f.key] =
                              IF ok THEN CounterAfter(counter, f.amount) ELSE counter]
           /\ fund' = [fund EXCEPT ![q] =
                  [f EXCEPT !.pc = IF ProceedsToChain(result) THEN "chain" ELSE "done",
                            !.result = result,
                            !.window = counter.windowStart,
                            !.pending = { p \in FundIds \ {q} :
                                            /\ fund[p].pc = "admit"
                                            /\ fund[p].key = f.key },
                            !.reply = IF ProceedsToChain(result) THEN "none" ELSE result]]
    /\ UNCHANGED <<now, notFundVars>>

\* fund(repoId, currency, amount) on the ChainGateway.
FundChain(q, outcome) ==
    /\ fund[q].pc = "chain"
    /\ fund' = [fund EXCEPT ![q] =
            [@ EXCEPT !.pc = "done", !.chainCalls = @ + 1,
                      !.reply = IF outcome = "Confirmed" THEN "TxRef" ELSE "ChainError"]]
    /\ UNCHANGED <<counters, now, notFundVars>>

(***************************************************************************)
(* TokenCache (getInstallationAccessToken of server/github): getToken      *)
(* exchanges an installation id for a short-lived token, caches it by      *)
(* installation id, and lets a caller that misses while an exchange is in  *)
(* flight wait for that exchange.                                          *)
(***************************************************************************)
CallerIds == 1..MaxCallers

Installations == {"i1", "i2"}

\* An entry: the cached token (0: none), the serial numbers of the exchanges
\* in flight and the number of exchanges issued so far.
EmptyEntry == [token |-> 0, inflight |-> {}, issued |-> 0]

IdleCaller == [pc |-> "idle", inst |-> "", waitOn |-> 0, leader |-> FALSE, got |-> "none"]

\* Whether a caller that misses issues an exchange: every miss does.
StartsExchangeOnMiss(entry) == TRUE

\* Whether a caller that misses issues an exchange: only when none is in flight.
StartsExchange(entry) == entry.inflight = {}

\* getToken(installationId) is called.
GetToken(c, inst) ==
    /\ callers[c].pc = "idle"
    /\ \A d \in CallerIds : d < c => callers[d].pc # "idle"
    /\ LET e == cache[inst]
           n == e.issued + 1
       IN  IF e.token # 0
           THEN /\ callers' = [callers EXCEPT ![c] =
                       [@ EXCEPT !.pc = "done", !.inst = inst, !.got = <<"token", e.token>>]]
                /\ UNCHANGED cache
           ELSE IF StartsExchange(e)
           THEN /\ cache' = [cache EXCEPT ![inst] =
                       [e EXCEPT !.inflight = @ \cup {n}, !.issued = n]]
                /\ callers' = [callers EXCEPT ![c] =
                       [@ EXCEPT !.pc = "wait", !.inst = inst, !.waitOn = n,
                                 !.leader = TRUE]]
           ELSE /\ callers' = [callers EXCEPT ![c] =
                       [@ EXCEPT !.pc = "wait", !.inst = inst,
                                 !.waitOn = CHOOSE x \in e.inflight :
                                               \A y \in e.inflight : x <= y]]
                /\ UNCHANGED cache
    /\ UNCHANGED notTokenVars

\* The exchange n of an installation id comes back: its token is cached and
\* handed to every caller waiting on it, or the entry is evicted and the
\* error propagated to them.
ExchangeDone(inst, n, outcome) ==
    /\ n \in cache[inst].inflight
    /\ cache' = [cache EXCEPT ![inst] =
            [@ EXCEPT !.inflight = @ \ {n},
                      !.token = IF outcome = "ok" THEN n ELSE 0]]
    /\ callers' = [c \in CallerIds |->
            IF callers[c].pc = "wait" /\ callers[c].inst = inst /\ callers[c].waitOn = n
            THEN [callers[c] EXCEPT !.pc = "done",
                                    !.got = IF outcome = "ok" THEN <<"token", n>>
                                                              ELSE <<"error", n>>]
            ELSE callers[c]]
    /\ UNCHANGED notTokenVars

\* The cached token reaches its expiry.
Expire(inst) ==
    /\ cache[inst].token # 0
    /\ cache' = [cache EXCEPT ![inst].token = 0]
    /\ UNCHANGED <<callers, notTokenVars>>

(***************************************************************************)
(* POST /github/app/finalize-installation: the repositories of an          *)
(* installation are linked to the installation and to the user, one after  *)
(* the other.                                                              *)
(***************************************************************************)
IdleFinalize ==
    [pc |-> "idle", user |-> Anon, inst |-> "", repos |-> << >>, count |-> 0,
     status |-> 0, tried |-> {}, associated |-> {}]

\* repo.id of an entry of the installation's repositories that carries no id.
Undefined == "(undefined)"

\* Line 1129: String(repo.id); String(undefined) is the text "undefined".
StringOf(id) == IF id = Undefined THEN "undefined" ELSE id

\* GET /installation/repositories with the installation's token.
GhInstallationRepos(inst) ==
    CASE inst = "i1" -> << [id |-> "42", full_name |-> <<"alice", "widgets">>] >>
      [] inst = "i2" -> << [id |-> "42", full_name |-> <<"alice", "widgets">>],
                           [id |-> "44", full_name |-> << >>],
                           [id |-> "43", full_name |-> <<"acme", "widgets">>] >>
      [] inst = "i3" -> << [id |-> Undefined, full_name |-> <<"alice", "gadgets">>],
                           [id |-> "43", full_name |-> <<"acme", "widgets">>] >>
      [] OTHER -> << >>

\* storage.findRegisteredRepositoryByGithubId(githubRepoId)
FindRegisteredRepositoryByGithubId(repoId) ==
    IF repoId \in Registered THEN {rows[repoId]} ELSE {}

\* addOrUpdateInstallationRepo as a plain insert: the row is written afresh.
AddInstallationRepoAfresh(installationId, repoId, fullName, isPrivate) ==
    [r \in Registered \cup {repoId} |->
        IF r = repoId
        THEN [githubRepoId |-> repoId, userId |-> "",
              githubRepoFullName |-> fullName, installationId |-> installationId,
              isPrivate |-> isPrivate, isActive |-> TRUE]
        ELSE rows[r]]

\* storage.addOrUpdateInstallationRepo: the store after the call.  A new row
\* has no user yet; isPrivate is the store's default.
AddOrUpdateInstallationRepo(installationId, repoId, fullName, isPrivate) ==
    [r \in Registered \cup {repoId} |->
        IF r # repoId THEN rows[r]
        ELSE IF repoId \in Registered
        THEN [rows[r] EXCEPT !.installationId = installationId]
        ELSE [githubRepoId |-> repoId, userId |-> "",
              githubRepoFullName |-> fullName, installationId |-> installationId,
              isPrivate |-> isPrivate, isActive |-> TRUE]]

\* storage.associateUserToInstallationRepo: the store after the call
\* ("this also updates installation ID", line 1149).
AssociateUserToInstallationRepo(userId, repoId, installationId) ==
    [r \in Registered |->
        IF r = repoId
        THEN [rows[r] EXCEPT !.userId = userId, !.installationId = installationId]
        ELSE rows[r]]

\* Lines 1128-1134 and 1162-1164: the loop moves to the next repository that
\* has an id and a full name; when none is left the response is sent.
RECURSIVE SkipUnnamed(_)
SkipUnnamed(repos) ==
    IF repos = << >> THEN << >>
    ELSE IF StringOf(Head(repos).id) = "" \/ Head(repos).full_name = << >>
         THEN SkipUnnamed(Tail(repos))
         ELSE repos

LoopOn(f, repos) ==
    LET rest == SkipUnnamed(repos)
    IN  IF rest = << >>
        THEN [f EXCEPT !.pc = "done", !.repos = << >>, !.status = 200]
        ELSE [f EXCEPT !.pc = "find", !.repos = rest]

\* requireAuth and lines 1093-1098.
FinalizeStart(u, installationId) ==
    /\ fin.pc = "idle"
    /\ fin' = IF u = Anon
              THEN [fin EXCEPT !.pc = "done", !.status = 401]
              ELSE IF installationId = ""
              THEN [fin EXCEPT !.pc = "done", !.user = u, !.status = 400]
              ELSE [fin EXCEPT !.pc = "token", !.user = u, !.inst = installationId]
    /\ UNCHANGED <<rows, notFinVars>>

\* Lines 1103-1104 and 1166-1170: await getInstallationAccessToken.
FinalizeToken(outcome) ==
    /\ fin.pc = "token"
    /\ fin' = IF outcome = "token"
              THEN [fin EXCEPT !.pc = "repos"]
              ELSE [fin EXCEPT !.pc = "done", !.status = 500]
    /\ UNCHANGED <<rows, notFinVars>>

\* Lines 1112-1128: await axios.get(/installation/repositories).
FinalizeRepos(outcome) ==
    /\ fin.pc = "repos"
    /\ fin' = IF outcome = "throws"
              THEN [fin EXCEPT !.pc = "done", !.status = 500]
              ELSE LoopOn(fin, GhInstallationRepos(fin.inst))
    /\ UNCHANGED <<rows, notFinVars>>

\* Lines 1138-1140 and 1155: await storage.findRegisteredRepositoryByGithubId.
FinalizeFind(outcome) ==
    /\ fin.pc = "find"
    /\ fin' = IF outcome = "throws"
              THEN LoopOn([fin EXCEPT !.tried = @ \cup {Head(fin.repos)}], Tail(fin.repos))
              ELSE IF FindRegisteredRepositoryByGithubId(StringOf(Head(fin.repos).id)) = {}
              THEN [fin EXCEPT !.pc = "create", !.tried = @ \cup {Head(fin.repos)}]
              ELSE [fin EXCEPT !.pc = "associate", !.tried = @ \cup {Head(fin.repos)}]
    /\ UNCHANGED <<rows, notFinVars>>

\* Line 1143: await storage.addOrUpdateInstallationRepo.
FinalizeCreate(outcome, isPrivate) ==
    /\ fin.pc = "create"
    /\ IF outcome = "throws"
       THEN /\ fin' = LoopOn(fin, Tail(fin.repos))
            /\ UNCHANGED rows
       ELSE /\ rows' = AddOrUpdateInstallationRepo(fin.inst, StringOf(Head(fin.repos).id),
                           Head(fin.repos).full_name, isPrivate)
            /\ fin' = [fin EXCEPT !.pc = "associate"]
    /\ UNCHANGED notFinVars

\* Lines 1146 and 1151-1154: await storage.associateUserToInstallationRepo.
FinalizeAssociate(outcome) ==
    /\ fin.pc = "associate"
    /\ IF outcome = "throws"
       THEN /\ fin' = LoopOn(fin, Tail(fin.repos))
            /\ UNCHANGED rows
       ELSE /\ rows' = AssociateUserToInstallationRepo(fin.user,
                           StringOf(Head(fin.repos).id), fin.inst)
            /\ fin' = LoopOn([fin EXCEPT !.count = @ + 1,
                                         !.associated = @ \cup {Head(fin.repos)}],
                             Tail(fin.repos))
    /\ UNCHANGED notFinVars

\* The response has been sent; the next request is served.
FinalizeFinish ==
    /\ fin.pc = "done"
    /\ fin' = IdleFinalize
    /\ UNCHANGED <<rows, notFinVars>>

(***************************************************************************)
(* Specifications.  Each subsystem is checked from a state in which the    *)
(* other subsystems are at rest.                                           *)
(***************************************************************************)
(***************************************************************************)
(* PATCH /repositories/:repoId/active (lines 605-646): the registering     *)
(* user switches a registration on or off.                                 *)
(***************************************************************************)
IdlePatch ==
    [pc |-> "idle", user |-> Anon, repoId |-> "", isActive |-> "", owner |-> "",
     status |-> 0, calls |-> {}]

\* req.body.isActive as the model sends it; "yes" is a value that is no boolean.
BodyIsActive == {"true", "false", "yes"}

\* typeof isActive === 'boolean'
TypeofBoolean(v) == v \in {"true", "false"}

\* storage.updateRepositoryActiveStatus(repoId, isActive): the store after
\* the call; the row it returns is undefined when there is none.
UpdateRepositoryActiveStatus(repoId, isActive) ==
    [rows EXCEPT ![repoId].isActive = (isActive = "true")]

\* OwnsRepository with the comparison dropped.
OwnsRepositoryAnyone(repo, user) == TRUE

\* Line 631: repo.userId !== req.user.id
OwnsRepository(repo, user) == repo.userId = user

\* requireAuth and lines 613-622.
PatchStart(u, repoId, isActive) ==
    /\ patch.pc = "idle"
    /\ patch' = IF u = Anon
                THEN [patch EXCEPT !.pc = "done", !.user = u, !.status = 401]
                ELSE IF ~TypeofBoolean(isActive)
                THEN [patch EXCEPT !.pc = "done", !.user = u, !.repoId = repoId,
                                   !.isActive = isActive, !.status = 400]
                ELSE [patch EXCEPT !.pc = "find", !.user = u, !.repoId = repoId,
                                   !.isActive = isActive]
    /\ UNCHANGED <<rows, notActiveVars>>

\* Lines 624-633: await storage.findRegisteredRepositoryByGithubId.
PatchFind(outcome) ==
    /\ patch.pc = "find"
    /\ LET r == [patch EXCEPT !.calls = @ \cup {"findRegisteredRepositoryByGithubId"}]
           repo == FindRegisteredRepositoryByGithubId(r.repoId)
       IN  patch' = IF outcome = "throws"
                    THEN [r EXCEPT !.pc = "done", !.status = 500]
                    ELSE IF repo = {}
                    THEN [r EXCEPT !.pc = "done", !.status = 404]
                    ELSE IF \E x \in repo : ~OwnsRepository(x, r.user)
                    THEN [r EXCEPT !.pc = "done", !.status = 403,
                                   !.owner = rows[r.repoId].userId]
                    ELSE [r EXCEPT !.pc = "update", !.owner = rows[r.repoId].userId]
    /\ UNCHANGED <<rows, notActiveVars>>

\* Lines 635-645: await storage.updateRepositoryActiveStatus.
PatchUpdate(outcome) ==
    /\ patch.pc = "update"
    /\ LET r == [patch EXCEPT !.calls = @ \cup {"updateRepositoryActiveStatus"}]
       IN  IF outcome = "throws" \/ r.repoId \notin Registered
           THEN /\ patch' = [r EXCEPT !.pc = "done", !.status = 500]
                /\ UNCHANGED rows
           ELSE /\ rows' = UpdateRepositoryActiveStatus(r.repoId, r.isActive)
                /\ patch' = [r EXCEPT !.pc = "done", !.status = 200]
    /\ UNCHANGED notActiveVars

\* The response has been sent; the next request is served.
PatchFinish ==
    /\ patch.pc = "done"
    /\ patch' = IdlePatch
    /\ UNCHANGED <<rows, notActiveVars>>

(***************************************************************************)
(* GET /auth/vscode/finalize-onboarding (server/routes/authRoutes.ts,      *)
(* lines 10-104).  The session middleware hands the handler req.session, a *)
(* copy of the stored session; req.session.save writes it back or fails.   *)
(***************************************************************************)
MaxIssued == 2

IdleOnboard ==
    [pc |-> "idle", user |-> Anon, flag |-> FALSE, flagged |-> FALSE, profile |-> FALSE,
     accessToken |-> FALSE, secret |-> FALSE, token |-> FALSE, redirect |-> ""]

\* The login from the editor marks the session (server/auth.ts).
BeginVscodeOnboarding ==
    /\ onb.pc = "idle"
    /\ ~sessionStore.isVscodeOnboarding
    /\ sessionStore' = [isVscodeOnboarding |-> TRUE]
    /\ issued' = 0
    /\ UNCHANGED <<onb, notOnboardVars>>

\* Lines 18-88: where the handler redirects to; "token" is the redirect that
\* carries the signed JWT.
OnboardOutcome(r) ==
    IF ~r.flag THEN "repos"
    ELSE IF ~r.profile THEN "profile_incomplete_after_onboarding"
    ELSE IF ~r.accessToken THEN "missing_token_data_finalize"
    ELSE IF ~r.secret THEN "jwt_secret_missing_finalize"
    ELSE "token"

\* Lines 10-94: the handler up to req.session.save.  It runs without an
\* await: the outcome is settled, the JWT is signed (88) and the flag is
\* deleted from req.session (20-22, 33-35, 47-49, 75-77, 90-92).
OnboardStart(u, profile, accessToken, secret) ==
    /\ onb.pc = "idle"
    /\ issued < MaxIssued
    /\ LET r == [onb EXCEPT !.user = u, !.flag = sessionStore.isVscodeOnboarding,
                            !.flagged = sessionStore.isVscodeOnboarding,
                            !.profile = profile, !.accessToken = accessToken,
                            !.secret = secret]
           out == OnboardOutcome(r)
       IN  IF u = Anon
           THEN /\ onb' = [r EXCEPT !.pc = "done",
                                    !.redirect = "session_expired_for_vscode_finalize"]
                /\ UNCHANGED issued
           ELSE /\ onb' = [r EXCEPT !.pc = "save", !.flag = FALSE,
                                    !.token = (out = "token"), !.redirect = out]
                /\ issued' = IF out = "token" THEN issued + 1 ELSE issued
    /\ UNCHANGED <<sessionStore, notOnboardVars>>

\* Lines 24-27, 36-39, 50-53, 78-81, 94-103: the callback of
\* req.session.save; the redirect is sent whether or not the save failed.
OnboardSave(outcome) ==
    /\ onb.pc = "save"
    /\ sessionStore' = IF outcome = "ok"
                       THEN [isVscodeOnboarding |-> onb.flag]
                       ELSE sessionStore
    /\ onb' = [onb EXCEPT !.pc = "done"]
    /\ UNCHANGED <<issued, notOnboardVars>>

\* The redirect has been sent; the next request is served.
OnboardFinish ==
    /\ onb.pc = "done"
    /\ onb' = IdleOnboard
    /\ UNCHANGED <<sessionStore, issued, notOnboardVars>>

(***************************************************************************)
(* AI credits (server/routes/authRoutes.ts, second router): the helper     *)
(* deductAICredits (158-178) and POST /api/vscode/ai/completions (190-307).*)
(***************************************************************************)
MaxDeduct == 2
InitialCredits == 3

DeductIds == 1..MaxDeduct

\* The user ids deductAICredits is called with; "ghost" has no user row.
CreditUsers == Users \cup {"ghost"}

\* The amounts a deduction is called with.
CreditAmounts == {1, 2, 4}

IdleDeduct ==
    [pc |-> "idle", user |-> "", amount |-> 0, newCredits |-> 0, outcome |-> "none"]

\* storage.getUserById(userId): the user row, or none.
GetUserById(userId) == IF userId \in Users THEN {userId} ELSE {}

\* Lines 161-170 and 174-177: what follows await storage.getUserById.
\* "throws" is one of the two errors the helper throws.
AfterGetUser(userId, amount) ==
    IF GetUserById(userId) = {} THEN [outcome |-> "throws", newCredits |-> 0]
    ELSE IF credits[userId] < amount THEN [outcome |-> "throws", newCredits |-> 0]
    ELSE [outcome |-> "write", newCredits |-> credits[userId] - amount]

\* Line 158: deductAICredits(userId, amount) is called.
DeductStart(d, u, amount) ==
    /\ deduct[d].pc = "idle"
    /\ \A e \in DeductIds : e < d => deduct[e].pc # "idle"
    /\ deduct' = [deduct EXCEPT ![d] = [@ EXCEPT !.pc = "read", !.user = u,
                                                 !.amount = amount]]
    /\ UNCHANGED <<credits, charged, ai, notCreditVars>>

\* Lines 161-170 and 174-177: await storage.getUserById and the two checks.
DeductRead(d, outcome) ==
    /\ deduct[d].pc = "read"
    /\ LET after == AfterGetUser(deduct[d].user, deduct[d].amount)
       IN  deduct' = [deduct EXCEPT ![d] =
               IF outcome = "throws" \/ after.outcome = "throws"
               THEN [@ EXCEPT !.pc = "done", !.outcome = "throws"]
               ELSE [@ EXCEPT !.pc = "write", !.newCredits = after.newCredits]]
    /\ UNCHANGED <<credits, charged, ai, notCreditVars>>

\* Lines 172-173: await storage.updateProfile(userId, {aiCredits: newCredits}).
DeductWrite(d, outcome) ==
    /\ deduct[d].pc = "write"
    /\ IF outcome = "throws"
       THEN /\ deduct' = [deduct EXCEPT ![d] = [@ EXCEPT !.pc = "done", !.outcome = "throws"]]
            /\ UNCHANGED <<credits, charged>>
       ELSE /\ credits' = [credits EXCEPT ![deduct[d].user] = deduct[d].newCredits]
            /\ charged' = [charged EXCEPT ![deduct[d].user] = @ + deduct[d].amount]
            /\ deduct' = [deduct EXCEPT ![d] = [@ EXCEPT !.pc = "done", !.outcome = "ok"]]
    /\ UNCHANGED <<ai, notCreditVars>>

IdleCompletion ==
    [pc |-> "idle", user |-> Anon, promptBalance |-> 0, estimatedCost |-> 0,
     upstream |-> FALSE, usage |-> "none", actualCost |-> 0, newCredits |-> 0,
     deducted |-> FALSE, status |-> 0, data |-> FALSE]

\* The costs estimateRequestCost (121-139) and calculateTokenCost (143-154)
\* come to, and the promptBalance of req.user, in credits.
Costs == {0, 1, 2, 4}

\* Lines 192-241: requireAuth, the estimate against req.user.promptBalance,
\* the configuration test, and the call of fetch.
CompletionStart(u, promptBalance, estimatedCost, configured) ==
    /\ ai.pc = "idle"
    /\ LET r == [ai EXCEPT !.user = u, !.promptBalance = promptBalance,
                           !.estimatedCost = estimatedCost]
       IN  ai' = IF u = Anon
                 THEN [ai EXCEPT !.pc = "done", !.status = 401]
                 ELSE IF promptBalance < estimatedCost
                 THEN [r EXCEPT !.pc = "done", !.status = 402]
                 ELSE IF ~configured
                 THEN [r EXCEPT !.pc = "done", !.status = 500]
                 ELSE [r EXCEPT !.pc = "fetch", !.upstream = TRUE]
    /\ UNCHANGED <<credits, charged, deduct, notCreditVars>>

\* Lines 241-268 and 289-295: the upstream answer.  outcome: fetch throws,
\* the answer is not ok (its status is passed on, 502 here), or it is ok
\* with or without a usage record.
CompletionFetch(outcome, actualCost) ==
    /\ ai.pc = "fetch"
    /\ outcome # "usage" => actualCost = 0
    /\ ai' = CASE outcome = "throws" -> [ai EXCEPT !.pc = "done", !.status = 500]
              [] outcome = "notOk" -> [ai EXCEPT !.pc = "done", !.status = 502]
              [] outcome = "usage" -> [ai EXCEPT !.pc = "deductRead", !.usage = "present",
                                                !.actualCost = actualCost]
              [] OTHER -> [ai EXCEPT !.pc = "done", !.usage = "absent",
                                     !.status = 200, !.data = TRUE]
    /\ UNCHANGED <<credits, charged, deduct, notCreditVars>>

\* Lines 270-279 with 161-170: deductAICredits up to its read.
CompletionDeductRead(outcome) ==
    /\ ai.pc = "deductRead"
    /\ LET after == AfterGetUser(ai.user, ai.actualCost)
       IN  ai' = IF outcome = "throws" \/ after.outcome = "throws"
                 THEN [ai EXCEPT !.pc = "done", !.status = 500]
                 ELSE [ai EXCEPT !.pc = "deductWrite", !.newCredits = after.newCredits]
    /\ UNCHANGED <<credits, charged, deduct, notCreditVars>>

\* Lines 172 and 270-295: the write of deductAICredits, then logAIUsage and
\* the response.
CompletionDeductWrite(outcome) ==
    /\ ai.pc = "deductWrite"
    /\ IF outcome = "throws"
       THEN /\ ai' = [ai EXCEPT !.pc = "done", !.status = 500]
            /\ UNCHANGED <<credits, charged>>
       ELSE /\ credits' = [credits EXCEPT ![ai.user] = ai.newCredits]
            /\ charged' = [charged EXCEPT ![ai.user] = @ + ai.actualCost]
            /\ ai' = [ai EXCEPT !.pc = "done", !.deducted = TRUE, !.status = 200,
                                !.data = TRUE]
    /\ UNCHANGED <<deduct, notCreditVars>>

\* The response has been sent; the next request is served.
CompletionFinish ==
    /\ ai.pc = "done"
    /\ ai' = IdleCompletion
    /\ UNCHANGED <<credits, charged, deduct, notCreditVars>>

(***************************************************************************)
(* The /admin/* endpoints (subscription routes): pending subscription      *)
(* payments, manual payment verification, Onramp order status and the      *)
(* verification log.                                                       *)
(***************************************************************************)
IdleAdmin ==
    [pc |-> "idle", endpoint |-> "", user |-> Anon, orderId |-> "",
     targetUserId |-> "", status |-> 0, data |-> FALSE]

AdminEndpoints ==
    {"/admin/subscription/pending", "/admin/subscription/verify/:orderId",
     "/admin/onramp/order/:orderId", "/admin/verification-log"}

\* req.user.id of the signed-in users
UserIdOf(u) == IF u = "alice" THEN 1 ELSE 2

\* The service behind an endpoint; the verification log has none.
ServiceOf(endpoint) ==
    CASE endpoint = "/admin/subscription/pending" -> "db.query.onrampTransactions.findMany"
      [] endpoint = "/admin/subscription/verify/:orderId" ->
             "paymentVerificationService.verifyPayment"
      [] endpoint = "/admin/onramp/order/:orderId" -> "onrampCryptoService.getOrderStatus"
      [] OTHER -> ""

\* The admin test passing for every signed-in user.
IsPlatformAdminAnyUser(id) == TRUE

\* Lines 16, 64, 103, 142: user.id !== 1
IsPlatformAdmin(id) == id = 1

\* requireAuth and lines 10-18, 58-73, 97-107, 136-152: the handler up to
\* its first await.  The verification log answers at once.
AdminStart(endpoint, u, orderId, targetUserId) ==
    /\ admin.pc = "idle"
    /\ endpoint \in AdminEndpoints
    /\ LET r == [admin EXCEPT !.endpoint = endpoint, !.user = u, !.orderId = orderId,
                              !.targetUserId = targetUserId]
       IN  admin' = IF u = Anon
                    THEN [r EXCEPT !.pc = "done", !.status = 401]
                    ELSE IF ~IsPlatformAdmin(UserIdOf(u))
                    THEN [r EXCEPT !.pc = "done", !.status = 403]
                    ELSE IF /\ endpoint = "/admin/subscription/verify/:orderId"
                            /\ (orderId = "" \/ targetUserId = "")
                    THEN [r EXCEPT !.pc = "done", !.status = 400]
                    ELSE IF endpoint = "/admin/verification-log"
                    THEN [r EXCEPT !.pc = "done", !.status = 200, !.data = TRUE]
                    ELSE [r EXCEPT !.pc = "call"]
    /\ UNCHANGED <<serviceCalls, notAdminVars>>

\* Lines 21-52, 76-91, 110-130: the import and the service call.  outcome:
\* the import throws, the call throws, the call answers, or (Onramp) it
\* answers with no order.
AdminCall(outcome) ==
    /\ admin.pc = "call"
    /\ outcome = "none" => admin.endpoint = "/admin/onramp/order/:orderId"
    /\ serviceCalls' = IF outcome = "importThrows" THEN serviceCalls
                       ELSE serviceCalls \cup
                            {[service |-> ServiceOf(admin.endpoint),
                              userId |-> UserIdOf(admin.user)]}
    /\ admin' = CASE outcome \in {"importThrows", "throws"} ->
                        [admin EXCEPT !.pc = "done", !.status = 500]
                 [] outcome = "none" -> [admin EXCEPT !.pc = "done", !.status = 404]
                 [] OTHER -> [admin EXCEPT !.pc = "done", !.status = 200, !.data = TRUE]
    /\ UNCHANGED notAdminVars

\* The response has been sent; the next request is served.
AdminFinish ==
    /\ admin.pc = "done"
    /\ admin' = IdleAdmin
    /\ UNCHANGED <<serviceCalls, notAdminVars>>

RestRegister == /\ rows = << >>
                /\ reg = [q \in RegIds |-> IdleRegister]
RestAccess == /\ acc = IdleListing
              /\ collaborators = {}
              /\ denied = {}
RestPublic == pub = NoResponse
RestLedger == /\ counters = [k \in LedgerKeys |-> [windowStart |-> 0, amountConsumed |-> 0]]
              /\ now = 0
              /\ decision = NoDecision
RestChain == /\ allocations = [k \in AllocationKeys |-> NoAllocation]
             /\ chainTxs = << >>
             /\ lastTx = NoResult
RestFund == fund = [q \in FundIds |-> IdleFund]
RestToken == /\ cache = [i \in Installations |-> EmptyEntry]
             /\ callers = [c \in CallerIds |-> IdleCaller]
RestFinalize == fin = IdleFinalize
RestActive == patch = IdlePatch
RestOnboard == /\ sessionStore = [isVscodeOnboarding |-> FALSE]
               /\ onb = IdleOnboard
               /\ issued = 0
RestCredits == /\ credits = [u \in Users |-> InitialCredits]
               /\ charged = [u \in Users |-> 0]
               /\ deduct = [d \in DeductIds |-> IdleDeduct]
               /\ ai = IdleCompletion
RestAdmin == admin = IdleAdmin /\ serviceCalls = {}
RestLate == RestActive /\ RestOnboard /\ RestCredits /\ RestAdmin
RestMore == RestFund /\ RestToken /\ RestFinalize /\ RestLate

InitRegister == RestRegister /\ RestAccess /\ RestPublic /\ RestLedger /\ RestChain /\ RestMore

NextRegister ==
    \/ \E q \in RegIds, u \in Principals, b \in RegisterBodies : RegisterStart(q, u, b)
    \/ \E q \in RegIds, b \in NoTokenBodies : RegisterStart(q, NoTokenUser, b)
    \/ \E q \in RegIds, o \in CallOutcomes : RegisterFind(q, o)
    \/ \E q \in RegIds, o \in CallOutcomes : RegisterOrgCheck(q, o)
    \/ \E q \in RegIds, o \in CallOutcomes : RegisterDetails(q, o)
    \/ \E q \in RegIds, o \in CallOutcomes : RegisterStore(q, o)
    \/ \E q \in RegIds, res \in {"found", "notfound", "transient"} : RegisterRepoLookup(q, res)
    \/ \E q \in RegIds, o \in CallOutcomes : RegisterUserList(q, o)

SpecRegister == InitRegister /\ [][NextRegister]_vars


\* The registries the listing is checked against: both repositories are
\* registered; isPrivate is what registration stored or what
\* scripts/fix-skillswap-visibility.ts set afterwards.
ListingRegistries ==
    { [r \in RepoIds |->
          [githubRepoId |-> r, userId |-> "alice",
           githubRepoFullName |-> IF r = "42" THEN <<"alice", "widgets">>
                                              ELSE <<"acme", "widgets">>,
           installationId |-> IF r = "42" THEN "i1" ELSE "i2",
           isPrivate |-> priv[r], isActive |-> TRUE]] :
      priv \in [RepoIds -> BOOLEAN] }

InitAccess ==
    /\ rows \in ListingRegistries
    /\ reg = [q \in RegIds |-> IdleRegister]
    /\ RestAccess /\ RestPublic /\ RestLedger /\ RestChain /\ RestMore

NextAccess ==
    \/ \E u \in Principals : ListingStart(u)
    \/ \E o \in CallOutcomes : ListingLoad(o)
    \/ \E r \in RepoIds, o \in {"token", "null", "throws"} : ListingToken(r, o)
    \/ \E r \in RepoIds, st \in ProbeStatuses : ListingProbe(r, st)
    \/ \E f \in SUBSET RepoIds : ListingRespond(f)
    \/ ListingFinish
    \/ \E u \in Users, r \in RepoIds : AddCollaborator(u, r)
    \/ \E u \in Users, r \in RepoIds : RemoveCollaborator(u, r)

SpecAccess == InitAccess /\ [][NextAccess]_vars

\* The registries the public endpoints are checked against: each repository
\* is unregistered, registered public or registered private.
PublicRegistries ==
    UNION { { [r \in some |-> reg0[r]] : reg0 \in ListingRegistries } :
            some \in SUBSET RepoIds }

InitPublic ==
    /\ rows \in PublicRegistries
    /\ reg = [q \in RegIds |-> IdleRegister]
    /\ RestAccess /\ RestPublic /\ RestLedger /\ RestChain /\ RestMore

NextPublic ==
    \/ \E p \in Principals, o \in CallOutcomes, f \in SUBSET RepoIds :
           RepositoriesPublic(p, o, f)
    \/ \E p \in Principals, id \in RepoIds \cup {"abc"},
          o \in {"ok", "storageThrows", "chainThrows"} :
           PublicRepositoryById(p, "/public/repositories/:repoId", id, o)
    \/ \E p \in Principals, id \in RepoIds \cup {"abc"},
          o \in {"ok", "storageThrows", "chainThrows"} :
           PublicRepositoryById(p, "/public/repositories/:repoId/bounties", id, o)
    \/ \E p \in Principals, owner \in {"alice", "acme", ".."}, repo \in {"widgets", "other"},
          t \in CallOutcomes, c \in CallOutcomes :
           PublicUnifiedRepo(p, owner, repo, t, c)
    \/ \E p \in Principals, owner \in {"alice", "acme", "..", ""}, repo \in {"widgets", "other"},
          o \in {"ok", "storageThrows", "tokenThrows", "githubThrows"} :
           PublicGithubIssues(p, owner, repo, o)

SpecPublic == InitPublic /\ [][NextPublic]_vars

InitLedger == RestRegister /\ RestAccess /\ RestPublic /\ RestLedger /\ RestChain /\ RestMore

NextLedger ==
    \/ \E k \in LedgerKeys, a \in Amounts : Admit(k, a)
    \/ Tick

SpecLedger == InitLedger /\ [][NextLedger]_vars

InitChain == RestRegister /\ RestAccess /\ RestPublic /\ RestLedger /\ RestChain /\ RestMore

NextChain ==
    \/ \E k \in AllocationKeys, o \in ChainOutcomes : Allocate(k, o)
    \/ \E k \in AllocationKeys, m \in BOOLEAN : Poll(k, m)

SpecChain == InitChain /\ [][NextChain]_vars

InitFund == RestRegister /\ RestAccess /\ RestPublic /\ RestLedger /\ RestChain /\ RestMore

NextFund ==
    \/ \E q \in FundIds, k \in FundKeys, a \in Amounts, ok \in BOOLEAN :
           FundStart(q, k, a, ok)
    \/ \E q \in FundIds : FundAdmit(q)
    \/ \E q \in FundIds, o \in ChainOutcomes : FundChain(q, o)
    \/ Tick

SpecFund == InitFund /\ [][NextFund]_vars

InitToken == RestRegister /\ RestAccess /\ RestPublic /\ RestLedger /\ RestChain /\ RestMore

NextToken ==
    \/ \E c \in CallerIds, i \in Installations : GetToken(c, i)
    \/ \E i \in Installations, n \in CallerIds, o \in CallOutcomes : ExchangeDone(i, n, o)
    \/ \E i \in Installations : Expire(i)

SpecToken == InitToken /\ [][NextToken]_vars

\* Re-linking next to a registration: finalize-installation requests are
\* served while one register request is under way.
InitRelink == RestRegister /\ RestAccess /\ RestPublic /\ RestLedger /\ RestChain /\ RestMore

NextRelink ==
    \/ \E u \in Principals, i \in Installations \cup {""} : FinalizeStart(u, i)
    \/ \E o \in {"token", "null", "throws"} : FinalizeToken(o)
    \/ \E o \in CallOutcomes : FinalizeRepos(o)
    \/ \E o \in CallOutcomes : FinalizeFind(o)
    \/ \E o \in CallOutcomes, priv \in BOOLEAN : FinalizeCreate(o, priv)
    \/ \E o \in CallOutcomes : FinalizeAssociate(o)
    \/ FinalizeFinish
    \/ \E u \in Users, b \in RegisterBodies : RegisterStart(1, u, b)
    \/ \E o \in CallOutcomes : RegisterFind(1, o)
    \/ \E o \in CallOutcomes : RegisterOrgCheck(1, o)
    \/ \E o \in CallOutcomes : RegisterDetails(1, o)
    \/ \E o \in CallOutcomes : RegisterStore(1, o)
    \/ \E res \in {"found", "notfound", "transient"} : RegisterRepoLookup(1, res)
    \/ \E o \in CallOutcomes : RegisterUserList(1, o)

SpecRelink == InitRelink /\ [][NextRelink]_vars

\* finalize-installation on its own, for the installations of the token
\* cache and one whose repository list has an entry without an id.
InitFinalize ==
    /\ rows \in PublicRegistries
    /\ reg = [q \in RegIds |-> IdleRegister]
    /\ RestAccess /\ RestPublic /\ RestLedger /\ RestChain /\ RestMore

NextFinalize ==
    \/ \E u \in Principals, i \in Installations \cup {"i3", ""} : FinalizeStart(u, i)
    \/ \E o \in {"token", "null", "throws"} : FinalizeToken(o)
    \/ \E o \in CallOutcomes : FinalizeRepos(o)
    \/ \E o \in CallOutcomes : FinalizeFind(o)
    \/ \E o \in CallOutcomes, priv \in BOOLEAN : FinalizeCreate(o, priv)
    \/ \E o \in CallOutcomes : FinalizeAssociate(o)
    \/ FinalizeFinish

SpecFinalize == InitFinalize /\ [][NextFinalize]_vars

\* The two listings that carry pool balances, side by side: the accessible
\* repositories of a signed-in user and the public repositories.
InitPool ==
    /\ rows \in PublicRegistries
    /\ reg = [q \in RegIds |-> IdleRegister]
    /\ RestAccess /\ RestPublic /\ RestLedger /\ RestChain /\ RestMore

NextPool ==
    \/ \E u \in Principals : ListingStart(u)
    \/ \E o \in CallOutcomes : ListingLoad(o)
    \/ \E r \in RepoIds, o \in {"token", "null", "throws"} : ListingToken(r, o)
    \/ \E r \in RepoIds, st \in ProbeStatuses : ListingProbe(r, st)
    \/ \E f \in SUBSET RepoIds : ListingRespond(f)
    \/ ListingFinish
    \/ \E r \in RepoIds : AddCollaborator("alice", r)
    \/ \E p \in Principals, o \in CallOutcomes, f \in SUBSET RepoIds :
           RepositoriesPublic(p, o, f)

SpecPool == InitPool /\ [][NextPool]_vars

\* The registries PATCH /repositories/:repoId/active is checked against: each
\* repository is registered or not, by either user.
ActiveRegistries ==
    UNION { { [r \in some |->
                 [githubRepoId |-> r, userId |-> own[r],
                  githubRepoFullName |-> IF r = "42" THEN <<"alice", "widgets">>
                                                     ELSE <<"acme", "widgets">>,
                  installationId |-> IF r = "42" THEN "i1" ELSE "i2",
                  isPrivate |-> (r = "42"), isActive |-> TRUE]] :
              own \in [RepoIds -> Users] } :
            some \in SUBSET RepoIds }

InitActive ==
    /\ rows \in ActiveRegistries
    /\ reg = [q \in RegIds |-> IdleRegister]
    /\ RestAccess /\ RestPublic /\ RestLedger /\ RestChain /\ RestMore

NextActive ==
    \/ \E u \in Principals, r \in RepoIds \cup {"99"}, v \in BodyIsActive : PatchStart(u, r, v)
    \/ \E o \in CallOutcomes : PatchFind(o)
    \/ \E o \in CallOutcomes : PatchUpdate(o)
    \/ PatchFinish

SpecActive == InitActive /\ [][NextActive]_vars

InitOnboard == RestRegister /\ RestAccess /\ RestPublic /\ RestLedger /\ RestChain /\ RestMore

NextOnboard ==
    \/ BeginVscodeOnboarding
    \/ \E u \in Principals, p \in BOOLEAN, t \in BOOLEAN, k \in BOOLEAN :
           OnboardStart(u, p, t, k)
    \/ \E o \in {"ok", "err"} : OnboardSave(o)
    \/ OnboardFinish

SpecOnboard == InitOnboard /\ [][NextOnboard]_vars

InitCredits == RestRegister /\ RestAccess /\ RestPublic /\ RestLedger /\ RestChain /\ RestMore

NextCredits ==
    \/ \E d \in DeductIds, u \in CreditUsers, a \in CreditAmounts : DeductStart(d, u, a)
    \/ \E d \in DeductIds, o \in CallOutcomes : DeductRead(d, o)
    \/ \E d \in DeductIds, o \in CallOutcomes : DeductWrite(d, o)

SpecCredits == InitCredits /\ [][NextCredits]_vars

InitCompletion == RestRegister /\ RestAccess /\ RestPublic /\ RestLedger /\ RestChain /\ RestMore

NextCompletion ==
    \/ \E u \in Principals, b \in Costs, e \in Costs, c \in BOOLEAN :
           CompletionStart(u, b, e, c)
    \/ \E o \in {"throws", "notOk", "usage", "noUsage"}, a \in Costs : CompletionFetch(o, a)
    \/ \E o \in CallOutcomes : CompletionDeductRead(o)
    \/ \E o \in CallOutcomes : CompletionDeductWrite(o)
    \/ CompletionFinish

SpecCompletion == InitCompletion /\ [][NextCompletion]_vars

InitAdmin == RestRegister /\ RestAccess /\ RestPublic /\ RestLedger /\ RestChain /\ RestMore

NextAdmin ==
    \/ \E e \in AdminEndpoints, u \in Principals, o \in {"o1", "o2"}, t \in {"", "7"} :
           AdminStart(e, u, o, t)
    \/ \E o \in {"importThrows", "throws", "ok", "none"} : AdminCall(o)
    \/ AdminFinish

SpecAdmin == InitAdmin /\ [][NextAdmin]_vars

(***************************************************************************)
(* Claims about POST /repositories/register (SpecRegister).                *)
(***************************************************************************)
HasCalled(r, what) == \E i \in 1..Len(r.calls) : r.calls[i] = what

\* C4: when the repo-specific installation lookup of a registration without a
\* hint has succeeded, the registration is stored with that installation id,
\* and GET /user/installations is requested only when the lookup has failed.
C4_RepoSpecificPrecedence ==
    \A q \in RegIds :
        reg[q].lookup = "found" =>
            /\ reg[q].status = 201 =>
                   reg[q].inst = GhRepoInstallation(reg[q].owner, reg[q].name)
            /\ ~HasCalled(reg[q], "userInstallations")

\* C5: a registration whose repo-specific lookup failed and whose caller has
\* no installation of the platform's app ends with 400 "GitHub App not
\* installed" and a non-empty installUrl, and never calls
\* storage.registerRepositoryDirectly.
C5_NotInstalledNoRow ==
    \A q \in RegIds :
        ( /\ reg[q].lookup \in {"notfound", "transient"}
          /\ FindAppInstallationByName(GhUserInstallations(reg[q].user)) = <<>> )
        => /\ ~HasCalled(reg[q], "registerRepositoryDirectly")
           /\ reg[q].pc \in {"userList", "done"}
           /\ reg[q].pc = "done" =>
                  /\ reg[q].status = 400
                  /\ reg[q].error = "GitHub App not installed"
                  /\ Len(reg[q].installUrl) > 0
                  /\ \A i \in 1..Len(reg[q].installUrl) : reg[q].installUrl[i] # ""

\* C5 witness: bob, without any installation of the app, was told NotInstalled.
C5_Witness ==
    \E q \in RegIds :
        /\ reg[q].pc = "done"
        /\ reg[q].lookup = "notfound"
        /\ reg[q].listing = "nomatch"
        /\ reg[q].status = 400
        /\ reg[q].repoId \notin Registered

\* C9: a registration in which the repo-installation lookup or the
\* user-installations listing failed with a transient error does not end
\* with "GitHub App not installed".
C9_TransientNotNotInstalled ==
    \A q \in RegIds :
        ( /\ reg[q].pc = "done"
          /\ \/ reg[q].lookup = "transient"
             \/ reg[q].listing = "transient" )
        => reg[q].error # "GitHub App not installed"

\* A request between its existence check and the end of its row creation.
InRegistration(r) == r.pc \notin {"idle", "find", "done"}

\* C10: two register requests for the same repository are never both between
\* their existence check and their row creation.
C10_RegistrationSerialized ==
    \A p \in RegIds, q \in RegIds :
        (p # q /\ reg[p].repoId = reg[q].repoId)
        => ~(InRegistration(reg[p]) /\ InRegistration(reg[q]))


\* The caller of request r is not the owner and is not a verified admin of the
\* owner organisation.
NotOrgAdmin(r) ==
    /\ r.user # Anon /\ r.owner # ""
    /\ ToLowerCase(r.owner) # ToLowerCase(Username(r.user))
    /\ \/ GithubAccessToken(r.user) = <<>>
       \/ ~VerifyUserIsOrgAdmin(r.user, r.owner)

C17_RegisterIdempotent ==
    [][ \A q \in RegIds :
          ( /\ reg[q].pc = "find"
            /\ reg'[q] # reg[q]
            /\ FindRegisteredRepository(reg[q].user, reg[q].repoId) # {} )
          => /\ rows' = rows
             /\ reg'[q].pc = "done"
             /\ reg'[q].status \in {200, 500}
             /\ reg'[q].calls = <<"findRegisteredRepository">> ]_vars

\* C17 witness: a repeated call was answered 200 with the existing
\* registration, having called nothing but the existence check.
C17_Witness ==
    \E q \in RegIds :
        /\ reg[q].pc = "done" /\ reg[q].status = 200
        /\ reg[q].calls = <<"findRegisteredRepository">>
        /\ FindRegisteredRepository(reg[q].user, reg[q].repoId) # {}
        /\ \E p \in RegIds : p # q /\ reg[p].status = 201 /\ reg[p].repoId = reg[q].repoId
                                /\ reg[p].user = reg[q].user
                                /\ rows[reg[q].repoId].installationId = reg[p].inst

\* C18: the installation id of a stored registration is one GitHub returned
\* to this request: by the repo-specific lookup, or as the matching entry of
\* the caller's user installations.
C18_InstallationAuthority ==
    \A q \in RegIds :
        reg[q].status = 201 =>
            \/ /\ HasCalled(reg[q], "repoInstallation")
               /\ reg[q].inst = GhRepoInstallation(reg[q].owner, reg[q].name)
               /\ reg[q].inst # ""
            \/ /\ HasCalled(reg[q], "userInstallations")
               /\ \E i \in 1..Len(GhUserInstallations(reg[q].user)) :
                      /\ GhUserInstallations(reg[q].user)[i].id = reg[q].inst
                      /\ GhUserInstallations(reg[q].user)[i].app_slug = GithubAppName

ProbeNotCompleted(r) ==
    \/ r \in DOMAIN acc.token /\ acc.token[r] \in {"null", "throws"}
    \/ r \in DOMAIN acc.reply /\ acc.reply[r] \notin {204, 404}

\* C2: a registered repository with isPrivate = true whose probe could not be
\* completed (no token, the token request threw, the collaborator request
\* threw or came back with another status than 204 or 404) is not visible
\* and is not in the result.
C2_FailClosed ==
    \A r \in DOMAIN acc.snapshot :
        (acc.snapshot[r].isPrivate /\ ProbeNotCompleted(r)) =>
            /\ acc.step[r] = "hidden"
            /\ r \notin acc.result

\* C2 witness: a collaborator of a private repository is served a listing
\* without it because the probe could not be completed.
C2_Witness ==
    /\ acc.pc = "done" /\ acc.status = 200
    /\ \E r \in DOMAIN acc.snapshot :
          /\ acc.snapshot[r].isPrivate
          /\ ProbeNotCompleted(r)
          /\ <<acc.user, r>> \in collaborators
          /\ r \notin acc.result

\* C8: a private repository that an earlier listing of the same user left out
\* on a 404 is visible in a later listing whose token request yielded a
\* token and whose collaborator request came back 204.
C8_NoStaleNegative ==
    \A r \in acc.deniedBefore :
        ( /\ r \in DOMAIN acc.snapshot /\ acc.snapshot[r].isPrivate
          /\ r \in DOMAIN acc.token /\ acc.token[r] = "token"
          /\ r \in DOMAIN acc.reply /\ acc.reply[r] = 204 )
        => /\ acc.step[r] = "visible"
           /\ acc.pc = "done" => r \in acc.result

\* C8 witness: the listing contains a private repository that an earlier
\* listing of the same user left out.
C8_Witness ==
    /\ acc.pc = "done" /\ acc.status = 200
    /\ \E r \in acc.deniedBefore :
          /\ <<acc.user, r>> \in denied
          /\ acc.snapshot[r].isPrivate
          /\ r \in acc.result


\* The per-repository functions that are between their first await and their
\* return: a token fetch or a collaborator request is outstanding.
InFlightProbes == { r \in DOMAIN acc.step : acc.step[r] \in {"token", "probe"} }

\* A cap below the number of private repositories that can be registered.
ProbeCap == Cardinality(RepoIds) - 1

\* C14: at every moment the number of in-flight probes of the listing is at
\* most the cap, however many private repositories are registered.
C14_BoundedProbes == Cardinality(InFlightProbes) <= ProbeCap

\* Whether s is listed, from the row and the probe of s alone.
OwnVerdict(s) ==
    \/ ~acc.snapshot[s].isPrivate
    \/ /\ s \in DOMAIN acc.token /\ acc.token[s] = "token"
       /\ s \in DOMAIN acc.reply /\ acc.reply[s] = 204

\* C15: when the probe of a private repository could not be completed, the
\* listing is not aborted: it ends with 200, without that repository, and
\* every other repository is listed exactly when its own row and its own
\* probe say so.
C15_ProbeFailureIsolated ==
    \A r \in DOMAIN acc.snapshot :
        ProbeNotCompleted(r) =>
            /\ acc.pc \in {"probing", "done"}
            /\ acc.pc = "done" =>
                   /\ acc.status = 200
                   /\ r \notin acc.result
                   /\ \A s \in DOMAIN acc.snapshot \ {r} :
                          s \in acc.result <=> OwnVerdict(s)

\* C15 witness: two private repositories, the probe of one failed, and the
\* listing was sent with the other.
C15_Witness ==
    /\ acc.pc = "done" /\ acc.status = 200
    /\ \E r \in DOMAIN acc.snapshot, s \in DOMAIN acc.snapshot :
          /\ r # s
          /\ acc.snapshot[r].isPrivate /\ acc.snapshot[s].isPrivate
          /\ ProbeNotCompleted(r)
          /\ r \notin acc.result
          /\ s \in acc.result

(***************************************************************************)
(* Claim about the endpoints that need no session (SpecPublic).            *)
(***************************************************************************)
\* C3: the handlers of the endpoints that need no session make no
\* collaborator probe, so no response of theirs carries the on-chain data of
\* a repository registered with isPrivate = true.
C3_PrivatePoolDataGated ==
    \A r \in pub.blockchain : ~rows[r].isPrivate


(***************************************************************************)
(* Claim about the RewardLedger (SpecLedger).                              *)
(***************************************************************************)
\* C6: amountConsumed never exceeds the daily limit of its counter; an
\* admission is accepted exactly when the consumed amount plus the admitted
\* amount is at most the limit, an accepted one adds its amount and a
\* rejected one leaves amountConsumed as it was.
C6_LimitAtBoundary ==
    /\ \A k \in LedgerKeys : counters[k].amountConsumed <= DailyLimit(k)
    /\ decision.result # "none" =>
          /\ decision.result = "Accepted"
                <=> decision.before + decision.amount <= DailyLimit(decision.key)
          /\ decision.result = "Accepted" =>
                counters[decision.key].amountConsumed = decision.before + decision.amount
          /\ decision.result = "LimitExceeded" =>
                counters[decision.key].amountConsumed = decision.before

\* C6 witness: USDC funding with limit 150: after an accepted 100 a second
\* 100 was rejected, and the counter stayed at 100.
C6_Witness ==
    /\ decision.key = <<"repo42", "USDC", "funding">>
    /\ decision.amount = 100 /\ decision.before = 100
    /\ decision.result = "LimitExceeded"
    /\ counters[decision.key].amountConsumed = 100

(***************************************************************************)
(* Claim about the ChainGateway (SpecChain).                               *)
(***************************************************************************)
\* C7: at most one on-chain allocation is executed per idempotency key, and
\* a call that returns a TxRef for a key returns the transaction that was
\* executed for that key.
C7_AllocateIdempotent ==
    /\ \A i \in 1..Len(chainTxs), j \in 1..Len(chainTxs) :
           chainTxs[i] = chainTxs[j] => i = j
    /\ lastTx.result = "TxRef" =>
           /\ lastTx.tx \in 1..Len(chainTxs)
           /\ chainTxs[lastTx.tx] = lastTx.key

\* C7 witness: a second allocate with a confirmed key returned the first
\* call's transaction.
C7_Witness ==
    /\ lastTx.replay /\ lastTx.result = "TxRef"
    /\ allocations[lastTx.key].status = "confirmed"
    /\ chainTxs[lastTx.tx] = lastTx.key
    /\ Len(chainTxs) = 1

C12_RejectionIsHard ==
    \A q \in FundIds :
        /\ (fund[q].pc = "chain" \/ fund[q].chainCalls > 0) => fund[q].result = "Accepted"
        /\ fund[q].result = "LimitExceeded" =>
               /\ fund[q].pc = "done"
               /\ fund[q].chainCalls = 0
               /\ fund[q].reply = "LimitExceeded"

\* C12 witness: one request was accepted and went to the chain, a later one on
\* the same counter was rejected and did not.
C12_Witness ==
    \E p \in FundIds, q \in FundIds :
        /\ fund[p].key = fund[q].key
        /\ fund[p].result = "Accepted" /\ fund[p].chainCalls = 1
        /\ fund[q].result = "LimitExceeded" /\ fund[q].pc = "done"
        /\ fund[q].chainCalls = 0

(***************************************************************************)
(* Claim about the TokenCache (SpecToken).                                 *)
(***************************************************************************)
\* C13: at most one token exchange of an installation id is in flight; every
\* waiting caller waits on the exchange in flight; a caller that missed while
\* an exchange was in flight issued none of its own and received the result
\* of the exchange that the first caller issued.
C13_SingleFlight ==
    /\ \A i \in Installations :
           /\ Cardinality(cache[i].inflight) <= 1
           /\ cache[i].issued =
                  Cardinality({ c \in CallerIds : callers[c].leader /\ callers[c].inst = i })
    /\ \A c \in CallerIds :
           /\ callers[c].pc = "wait" => callers[c].waitOn \in cache[callers[c].inst].inflight
           /\ (callers[c].pc = "done" /\ callers[c].waitOn # 0 /\ ~callers[c].leader) =>
                  \E d \in CallerIds :
                      /\ callers[d].leader
                      /\ callers[d].inst = callers[c].inst
                      /\ callers[d].waitOn = callers[c].waitOn
                      /\ callers[d].got = callers[c].got

\* C13 witness: two callers missed on the same installation id, one exchange
\* was issued, and both hold its token.
C13_Witness ==
    \E c \in CallerIds, d \in CallerIds :
        /\ c # d
        /\ callers[c].inst = callers[d].inst
        /\ callers[c].leader /\ ~callers[d].leader
        /\ callers[d].waitOn = callers[c].waitOn /\ callers[d].waitOn # 0
        /\ callers[c].pc = "done" /\ callers[d].pc = "done"
        /\ callers[c].got = callers[d].got
        /\ callers[c].got[1] = "token"
        /\ cache[callers[c].inst].issued = 1

(***************************************************************************)
(* Claim about re-linking (SpecRelink).                                    *)
(***************************************************************************)
\* C19: every row is the one row of its githubRepoId; no step removes a row
\* or changes its githubRepoId, and a step of finalize-installation changes
\* nothing of an existing row but its installationId and its user.
C19_RepoIdImmutable ==
    /\ [](\A r \in Registered : rows[r].githubRepoId = r)
    /\ [][ \A r \in Registered :
              /\ r \in DOMAIN rows'
              /\ rows'[r].githubRepoId = rows[r].githubRepoId
              /\ fin' # fin =>
                     rows'[r] = [rows[r] EXCEPT !.installationId = rows'[r].installationId,
                                                !.userId = rows'[r].userId] ]_vars

\* C19 witness: a repository that a register request stored under one
\* installation id has been re-linked by finalize-installation to another,
\* in the same row.
C19_Witness ==
    /\ reg[1].status = 201
    /\ reg[1].repoId \in Registered
    /\ rows[reg[1].repoId].githubRepoId = reg[1].repoId
    /\ rows[reg[1].repoId].installationId # reg[1].inst
    /\ rows[reg[1].repoId].installationId = fin.inst
    /\ rows[reg[1].repoId].isPrivate = reg[1].isPrivate
    /\ fin.count > 0

(***************************************************************************)
(* Claim about the pool information of the listings (SpecPool).            *)
(***************************************************************************)
\* The entries of a sent list tell the chain reads that threw from those that
\* answered: poolInfoError is null exactly for the latter, and a read that
\* threw leaves zero balances.
PoolInfoSurfaced(list, failed, info) ==
    \A r \in list :
        /\ info[r].poolInfoError = "null" <=> r \notin failed
        /\ r \in failed => info[r].xdcPoolRewards = "0.0"
        /\ r \notin failed => info[r].xdcPoolRewards = ChainPoolRewards(r)

\* C20: in the responses of GET /repositories/accessible and of
\* GET /repositories/public every repository that passed the filter is in the
\* list whether its chain read threw or not, with poolInfoError null exactly
\* when the read answered and zero balances when it threw.
C20_PoolErrorsSurfaced ==
    /\ (acc.pc = "done" /\ acc.status = 200) =>
           /\ acc.result = { r \in DOMAIN acc.step : acc.step[r] = "visible" }
           /\ DOMAIN acc.poolInfo = acc.result
           /\ PoolInfoSurfaced(acc.result, acc.chainFailed, acc.poolInfo)
    /\ (pub.endpoint = "/repositories/public" /\ pub.status = 200) =>
           /\ pub.repositories = GetAllPublicRepositories
           /\ DOMAIN pub.poolInfo = pub.repositories
           /\ PoolInfoSurfaced(pub.repositories, pub.chainFailed, pub.poolInfo)

\* C20 witness: both listings were sent with two repositories, the chain read
\* of one having thrown and the other having answered.
C20_Witness ==
    /\ acc.pc = "done" /\ acc.status = 200
    /\ Cardinality(acc.result) = 2 /\ Cardinality(acc.chainFailed) = 1
    /\ acc.chainFailed \subseteq acc.result
    /\ pub.endpoint = "/repositories/public" /\ pub.status = 200
    /\ Cardinality(pub.repositories) = 2 /\ Cardinality(pub.chainFailed) = 1
    /\ \E r \in pub.chainFailed : pub.poolInfo[r].poolInfoError # "null"

\* C22: in the listing that is sent, a private repository is included exactly
\* when the requester is authenticated, the installation token was obtained
\* and the collaborator request came back 204; a 404 leaves it out, and an
\* unauthenticated requester is sent no list and causes no GitHub request.
C22_PrivateIffCollaborator ==
    /\ acc.user = Anon => acc.result = {} /\ acc.ghCalls = {} /\ acc.token = << >>
    /\ (acc.pc = "done" /\ acc.status = 200) =>
          \A r \in DOMAIN acc.snapshot :
              acc.snapshot[r].isPrivate =>
                  ( r \in acc.result <=>
                      /\ acc.user # Anon
                      /\ r \in DOMAIN acc.token /\ acc.token[r] = "token"
                      /\ r \in DOMAIN acc.reply /\ acc.reply[r] = 204 )

\* C22 witness: one listing in which a private repository answered 204 is
\* included and another private repository answered 404 is left out.
C22_Witness ==
    /\ acc.pc = "done" /\ acc.status = 200
    /\ \E r, x \in DOMAIN acc.snapshot :
          /\ acc.snapshot[r].isPrivate /\ acc.snapshot[x].isPrivate
          /\ r \in DOMAIN acc.reply /\ acc.reply[r] = 204 /\ r \in acc.result
          /\ x \in DOMAIN acc.reply /\ acc.reply[x] = 404 /\ x \notin acc.result

(***************************************************************************)
(* Claims about the visibility a registration stores (SpecRegister).       *)
(***************************************************************************)
\* What the repository-details request of registration r settles for
\* isPrivate: GitHub's `private` flag when it answered, false when it failed.
DetailsSettled(r) ==
    IF r.details = "ok" THEN (\E g \in GhRepo(r.owner, r.name) : g.private)
    ELSE FALSE

\* C23: on each of the three registration paths the isPrivate that is stored
\* is GitHub's `private` flag as the repository-details request of that
\* registration returned it, and when that request failed the registration
\* is still written, with isPrivate = false.
C23_StoredVisibility ==
    /\ [](\A q \in RegIds : reg[q].isPrivate = DetailsSettled(reg[q]))
    /\ [][\A q \in RegIds :
            /\ (reg[q].pc \in {"hintStore", "repoStore", "userStore"}
                  /\ reg'[q].status = 201)
               => /\ reg[q].details \in {"ok", "throws"}
                  /\ reg[q].repoId \in DOMAIN rows'
                  /\ rows'[reg[q].repoId].isPrivate = DetailsSettled(reg[q])
            /\ (reg[q].pc \in {"hintDetails", "repoDetails", "userDetails"}
                  /\ reg'[q] # reg[q] /\ reg'[q].details = "throws")
               => reg'[q].pc \in {"hintStore", "repoStore", "userStore"}
          ]_vars

\* C23 witness: one registration stored the flag GitHub returned, and another
\* whose details request failed was written as public although the
\* repository is private at GitHub.
C23_Witness ==
    \E q, p \in RegIds :
        /\ reg[q].status = 201 /\ reg[q].details = "ok"
        /\ rows[reg[q].repoId].isPrivate = DetailsSettled(reg[q])
        /\ reg[p].status = 201 /\ reg[p].details = "throws"
        /\ \E g \in GhRepo(reg[p].owner, reg[p].name) : g.private
        /\ ~rows[reg[p].repoId].isPrivate

(***************************************************************************)
(* Claim about installation tokens on the endpoints that need no session   *)
(* (SpecPublic).                                                           *)
(***************************************************************************)
\* C24: a request without a session never causes a GitHub request that
\* carries an installation token for a repository registered with
\* isPrivate = true: GET /public/github/issues and GET /public/unified-repo
\* attach the token only when the registration they found is public.
C24_NoTokenForPrivate ==
    pub.principal = Anon => \A r \in pub.authorized : ~rows[r].isPrivate

(***************************************************************************)
(* Claim about PATCH /repositories/:repoId/active (SpecActive).            *)
(***************************************************************************)
\* C25: the handler changes isActive, and nothing else of the store, only
\* when the registration it looked up belongs to the requester and the
\* body's isActive is a boolean; a request answered 401, 400, 404 or 403 has
\* not called storage.updateRepositoryActiveStatus and leaves the store as
\* it was.
C25_ActiveFrame ==
    /\ [](/\ patch.status \in {400, 401, 403, 404}
             => "updateRepositoryActiveStatus" \notin patch.calls
          /\ patch.status = 404 => patch.repoId \notin Registered
          /\ patch.status = 403 => patch.owner # patch.user
          /\ patch.status = 400 => ~TypeofBoolean(patch.isActive)
          /\ "updateRepositoryActiveStatus" \in patch.calls
             => /\ TypeofBoolean(patch.isActive)
                /\ patch.user # Anon
                /\ patch.owner = patch.user)
    /\ [][rows' # rows =>
            /\ patch.pc = "update" /\ patch'.status = 200
            /\ patch.owner = patch.user
            /\ rows[patch.repoId].userId = patch.user
            /\ TypeofBoolean(patch.isActive)
            /\ rows' = [rows EXCEPT ![patch.repoId].isActive = (patch.isActive = "true")]
         ]_vars

\* C25 witness: the registering user has switched a registration off.
C25_Witness ==
    /\ patch.pc = "done" /\ patch.status = 200
    /\ patch.isActive = "false"
    /\ rows[patch.repoId].userId = patch.user
    /\ ~rows[patch.repoId].isActive

(***************************************************************************)
(* Claim about the count of finalize-installation (SpecFinalize).          *)
(***************************************************************************)
\* The entries of the installation's repositories that carry an id and a
\* full name.
NamedRepos(inst) ==
    { GhInstallationRepos(inst)[i] : i \in 1..Len(GhInstallationRepos(inst)) }
    \ { x \in { GhInstallationRepos(inst)[i] : i \in 1..Len(GhInstallationRepos(inst)) } :
          x.id = Undefined \/ x.id = "" \/ x.full_name = << >> }

\* C26: finalize-installation handles the repositories one by one: a storage
\* error on one does not stop the rest, the answer is a success whose count
\* is the number of repositories whose association completed, and an entry
\* without an id or without a full name is skipped and not counted; when the
\* token or the repository list cannot be had, nothing is associated and the
\* answer is 500.
C26_CountIsAssociations ==
    /\ fin.count = Cardinality(fin.associated)
    /\ fin.tried \subseteq NamedRepos(fin.inst)
    /\ fin.associated \subseteq fin.tried
    /\ (fin.pc = "done" /\ fin.status = 200) => NamedRepos(fin.inst) \subseteq fin.tried
    /\ fin.status = 500 => fin.tried = {} /\ fin.count = 0

(***************************************************************************)
(* Claim about GET /auth/vscode/finalize-onboarding (SpecOnboard).         *)
(***************************************************************************)
\* The request in hand carries a token only under the four conditions.
TokenOnlyWhenQualified ==
    onb.token => /\ onb.user # Anon
                 /\ onb.flagged
                 /\ onb.profile /\ onb.accessToken /\ onb.secret
                 /\ onb.redirect = "token"

\* C27: a JWT is issued only when the session has isVscodeOnboarding, the
\* profile is complete, the user has a githubAccessToken and the session
\* secret is configured; the flag is removed before the redirect on every
\* outcome, so a second call in the same session is never issued a token.
C27_OneShotToken ==
    /\ TokenOnlyWhenQualified
    /\ (onb.pc = "done" /\ onb.user # Anon) => ~onb.flag
    /\ issued <= 1

(***************************************************************************)
(* Claims about AI credits (SpecCredits, SpecCompletion).                  *)
(***************************************************************************)
\* C28: however the deductAICredits calls for a user interleave, aiCredits
\* is never negative and is the initial balance less the amounts of the
\* calls that succeeded; a call for an unknown user throws.
C28_CreditsConserved ==
    /\ \A u \in Users : credits[u] >= 0
    /\ \A u \in Users : credits[u] = InitialCredits - charged[u]
    /\ \A d \in DeductIds :
          (deduct[d].pc = "done" /\ deduct[d].user \notin Users)
              => deduct[d].outcome = "throws"

\* C29: the upstream service is called only when the balance covers the
\* estimate (402 and no call otherwise), the AI response is returned only
\* when the actual cost was deducted, and a failed deduction answers 500
\* without the response.
C29_NoFreeUsage ==
    /\ ai.upstream => ai.promptBalance >= ai.estimatedCost
    /\ ai.status = 402 => ~ai.upstream
    /\ ai.data => ai.deducted
    /\ (ai.pc = "done" /\ ai.usage = "present" /\ ~ai.deducted)
          => ai.status = 500 /\ ~ai.data

(***************************************************************************)
(* Claim about the /admin/* endpoints (SpecAdmin).                         *)
(***************************************************************************)
\* C30: every /admin/* endpoint makes its service call and returns data only
\* for the signed-in user whose id is 1; any other signed-in user is
\* answered 403, a request without a user 401, and for neither is a
\* database query, a payment verification or an Onramp lookup made.
C30_AdminOnly ==
    /\ \A c \in serviceCalls : c.userId = 1
    /\ admin.data => admin.user # Anon /\ UserIdOf(admin.user) = 1
    /\ admin.pc = "call" => admin.user # Anon /\ UserIdOf(admin.user) = 1
    /\ (admin.pc = "done" /\ admin.user = Anon) => admin.status = 401
    /\ (admin.pc = "done" /\ admin.user # Anon /\ UserIdOf(admin.user) # 1)
          => admin.status = 403

\* C30 witness: user 1 has been served a payment verification, and the
\* request in hand, of another user, is answered 403 on the same endpoint.
C30_Witness ==
    /\ [service |-> "paymentVerificationService.verifyPayment", userId |-> 1]
          \in serviceCalls
    /\ admin.pc = "done" /\ admin.status = 403
    /\ admin.endpoint = "/admin/subscription/verify/:orderId"
    /\ admin.user = "bob"

====
